---- MODULE Spec2Model ----
(***************************************************************************)
(* The command/response router (loadEngine), its process adapter           *)
(* (spawnWorker) and the promise facade (StockfishEngine) of stockfish.js. *)
(*                                                                         *)
(* Strings are sequences of one-character strings, so that substr,         *)
(* indexOf, split and += are computed as the JavaScript computes them.     *)
(* Indices of JavaScript strings and arrays are 0-based and are kept so in *)
(* the operators below; a TLA+ sequence is indexed from 1.                 *)
(***************************************************************************)
EXTENDS Integers, Sequences, FiniteSets, TLC

\* ------------------------------------------------------------------ bounds
\* _initialize() calls (each loads one engine) over the life of a facade
MaxInits == 2
\* calls of the public API made by the user of a facade
MaxCalls == 3
\* chunks the adapter reads from engine processes while a command is pending
MaxLines == 3
\* calls of the user and chunks read, together
MaxEvents == 5
\* setoption commands sent by _configureEngine
MaxOpts == 1
\* engine.send() calls made by a direct user of loadEngine
MaxSends == 3

Gens == 1..MaxInits

\* ----------------------------------------------------------------- strings
s_uci == <<"u", "c", "i">>
s_isready == <<"i", "s", "r", "e", "a", "d", "y">>
s_go == <<"g", "o">>
s_d == <<"d">>
s_eval == <<"e", "v", "a", "l">>
s_bench == <<"b", "e", "n", "c", "h">>
s_perft == <<"p", "e", "r", "f", "t">>
s_other == <<"o", "t", "h", "e", "r">>
s_stop == <<"s", "t", "o", "p">>
s_flip == <<"f", "l", "i", "p">>
s_ucinewgame == <<"u", "c", "i", "n", "e", "w", "g", "a", "m", "e">>
s_ponderhit == <<"p", "o", "n", "d", "e", "r", "h", "i", "t">>
s_position == <<"p", "o", "s", "i", "t", "i", "o", "n">>
s_setoption == <<"s", "e", "t", "o", "p", "t", "i", "o", "n">>
s_uciok == <<"u", "c", "i", "o", "k">>
s_option == <<"o", "p", "t", "i", "o", "n">>
s_readyok == <<"r", "e", "a", "d", "y", "o", "k">>
s_bestmove == <<"b", "e", "s", "t", "m", "o", "v", "e">>
s_info == <<"i", "n", "f", "o">>
s_KeyIs == <<"K", "e", "y", " ", "i", "s">>
s_LegalUciMoves == <<"L", "e", "g", "a", "l", " ", "u", "c", "i", " ", "m", "o", "v", "e", "s">>
s_pawnKey == <<"p", "a", "w", "n", " ", "k", "e", "y">>
s_NodesSecond == <<"N", "o", "d", "e", "s", "/", "s", "e", "c", "o", "n", "d">>
s_UnknownCommand == <<"U", "n", "k", "n", "o", "w", "n", " ", "c", "o", "m", "m", "a", "n", "d">>
s_TotalEvaluation == <<"T", "o", "t", "a", "l", " ", "E", "v", "a", "l", "u", "a", "t", "i", "o", "n">>
SP == <<" ">>
NL == <<"\n">>

Min(a, b) == IF a < b THEN a ELSE b

\* String.prototype.substr(from, len)
substr(s, from, len) == SubSeq(s, from + 1, Min(Len(s), from + len))

\* String.prototype.slice(0, -n)
sliceEnd(s, n) == SubSeq(s, 1, Len(s) - n)

\* String.prototype.slice(-n)
sliceLast(s, n) == SubSeq(s, (IF Len(s) > n THEN Len(s) - n ELSE 0) + 1, Len(s))

\* String.prototype.indexOf(ch) for a one-character ch
indexOf(s, ch) ==
    IF \E i \in 1..Len(s) : s[i] = ch
    THEN (CHOOSE i \in 1..Len(s) : s[i] = ch /\ \A j \in 1..(i - 1) : s[j] # ch) - 1
    ELSE -1

IsSpace(c) == c \in {" ", "\n", "\t", "\r"}

\* String.prototype.trim()
RECURSIVE trimLeft(_)
trimLeft(s) == IF Len(s) > 0 /\ IsSpace(s[1]) THEN trimLeft(Tail(s)) ELSE s
RECURSIVE trimRight(_)
trimRight(s) ==
    IF Len(s) > 0 /\ IsSpace(s[Len(s)]) THEN trimRight(SubSeq(s, 1, Len(s) - 1)) ELSE s
trim(s) == trimRight(trimLeft(s))

\* String.prototype.split("\n")
RECURSIVE split(_)
split(s) ==
    LET i == indexOf(s, "\n")
    IN  IF i = -1 THEN <<s>>
        ELSE <<SubSeq(s, 1, i)>> \o split(SubSeq(s, i + 2, Len(s)))

\* evalRegex = /Total Evaluation[\s\S]+\n$/ tested on the accumulated message
evalRegexTest(m) ==
    /\ Len(m) > 0
    /\ m[Len(m)] = "\n"
    /\ \E i \in 0..Len(m) :
          /\ substr(m, i, Len(s_TotalEvaluation)) = s_TotalEvaluation
          /\ Len(m) >= i + Len(s_TotalEvaluation) + 2

getFirstWord(line) ==
    LET spaceIndex == indexOf(line, " ")
    IN  IF spaceIndex = -1 THEN line ELSE substr(line, 0, spaceIndex)

\* every line given to the oldest command
determineQueueNum_front(line, q) == 0

\* The 0-based index of the queue entry a line belongs to; q is the sequence
\* of the cmd fields of the queue.
determineQueueNum(line, q) ==
    IF Len(q) = 0 THEN 0
    ELSE IF q[1] # s_bench /\ q[1] # s_perft
    THEN LET firstWord == getFirstWord(line)
             cmdType ==
                 IF firstWord = s_uciok \/ firstWord = s_option THEN s_uci
                 ELSE IF firstWord = s_readyok THEN s_isready
                 ELSE IF firstWord = s_bestmove \/ firstWord = s_info THEN s_go
                 ELSE s_other
             hit(i) ==
                 LET cmdFirstWord == getFirstWord(q[i])
                 IN  \/ cmdFirstWord = cmdType
                     \/ cmdType = s_other /\ (cmdFirstWord = s_d \/ cmdFirstWord = s_eval)
         IN  IF \E i \in 1..Len(q) : hit(i)
             THEN (CHOOSE i \in 1..Len(q) : hit(i) /\ \A j \in 1..(i - 1) : ~hit(j)) - 1
             ELSE 0
    ELSE 0

\* engine.send: the commands that are written without being queued
noReply(cmd) ==
    \/ cmd = s_ucinewgame
    \/ cmd = s_flip
    \/ cmd = s_stop
    \/ cmd = s_ponderhit
    \/ substr(cmd, 0, 8) = s_position
    \/ substr(cmd, 0, 9) = s_setoption

\* ------------------------------------------------- strings of the facade
s_startFen == <<"r", "n", "b", "q", "k", "b", "n", "r", "/", "p", "p", "p", "p", "p", "p", "p", "p", "/", "8", "/", "8", "/", "8", "/", "8", "/", "P", "P", "P", "P", "P", "P", "P", "P", "/", "R", "N", "B", "Q", "K", "B", "N", "R", " ", "w", " ", "K", "Q", "k", "q", " ", "-", " ", "0", " ", "1">>
s_fenKings == <<"8", "/", "8", "/", "8", "/", "8", "/", "8", "/", "8", "/", "8", "/", "K", "6", "k", " ", "w", " ", "-", " ", "-", " ", "0", " ", "1">>
s_fenFiveFields == <<"8", "/", "8", "/", "8", "/", "8", "/", "8", "/", "8", "/", "8", "/", "K", "6", "k", " ", "w", " ", "-", " ", "-", " ", "0">>
s_infoSp == <<"i", "n", "f", "o", " ">>
s_depth == <<"d", "e", "p", "t", "h">>
s_seldepth == <<"s", "e", "l", "d", "e", "p", "t", "h">>
s_score == <<"s", "c", "o", "r", "e">>
s_cp == <<"c", "p">>
s_mate == <<"m", "a", "t", "e">>
s_nodes == <<"n", "o", "d", "e", "s">>
s_nps == <<"n", "p", "s">>
s_time == <<"t", "i", "m", "e">>
s_pv == <<"p", "v">>
s_hashfull == <<"h", "a", "s", "h", "f", "u", "l", "l">>
s_currmove == <<"c", "u", "r", "r", "m", "o", "v", "e">>
s_currmovenumber == <<"c", "u", "r", "r", "m", "o", "v", "e", "n", "u", "m", "b", "e", "r">>
s_ponder == <<"p", "o", "n", "d", "e", "r">>
s_fen == <<"f", "e", "n">>
s_none == <<"(", "n", "o", "n", "e", ")">>
s_TotalEvaluationColon == <<"T", "o", "t", "a", "l", " ", "e", "v", "a", "l", "u", "a", "t", "i", "o", "n", ":">>

\* a token that is `undefined` (parts[i] past the end, an unmatched group)
UNDEF == <<"undefined">>

\* String.prototype.split(' ')
RECURSIVE splitSpace(_)
splitSpace(s) ==
    LET i == indexOf(s, " ")
    IN  IF i = -1 THEN <<s>>
        ELSE <<SubSeq(s, 1, i)>> \o splitSpace(SubSeq(s, i + 2, Len(s)))

\* Array.prototype.join(' ')
RECURSIVE joinSpace(_)
joinSpace(parts) ==
    IF Len(parts) = 0 THEN <<>>
    ELSE IF Len(parts) = 1 THEN parts[1]
    ELSE parts[1] \o SP \o joinSpace(Tail(parts))

IsDigit(c) == c \in {"0", "1", "2", "3", "4", "5", "6", "7", "8", "9"}

DigitValue(c) ==
    CASE c = "0" -> 0 [] c = "1" -> 1 [] c = "2" -> 2 [] c = "3" -> 3 [] c = "4" -> 4
      [] c = "5" -> 5 [] c = "6" -> 6 [] c = "7" -> 7 [] c = "8" -> 8 [] c = "9" -> 9

DigitChar(d) ==
    CASE d = 0 -> "0" [] d = 1 -> "1" [] d = 2 -> "2" [] d = 3 -> "3" [] d = 4 -> "4"
      [] d = 5 -> "5" [] d = 6 -> "6" [] d = 7 -> "7" [] d = 8 -> "8" [] d = 9 -> "9"

\* the value of the longest prefix of s made of digits, acc being the value so far
RECURSIVE digitsValue(_, _)
digitsValue(s, acc) ==
    IF Len(s) > 0 /\ IsDigit(s[1]) THEN digitsValue(Tail(s), acc * 10 + DigitValue(s[1]))
    ELSE acc

\* the digits of s after its longest prefix made of digits are dropped
RECURSIVE digitsPrefix(_)
digitsPrefix(s) ==
    IF Len(s) > 0 /\ IsDigit(s[1]) THEN <<s[1]>> \o digitsPrefix(Tail(s)) ELSE <<>>

\* a JavaScript number or undefined: k is "num", "NaN" or "undefined"
Num(n) == [k |-> "num", v |-> n]
NaN == [k |-> "NaN", v |-> 0]
Undefined == [k |-> "undefined", v |-> 0]

\* parseInt(tok): leading blanks, a sign, then digits; NaN without a digit
parseInt(tok) ==
    IF tok = UNDEF THEN NaN
    ELSE LET s    == trimLeft(tok)
             neg  == Len(s) > 0 /\ s[1] = "-"
             body == IF Len(s) > 0 /\ s[1] \in {"-", "+"} THEN Tail(s) ELSE s
         IN  IF Len(body) > 0 /\ IsDigit(body[1])
             THEN Num(IF neg THEN 0 - digitsValue(body, 0) ELSE digitsValue(body, 0))
             ELSE NaN

\* String(n) of an integer
RECURSIVE natToString(_)
natToString(n) ==
    IF n < 10 THEN <<DigitChar(n)>> ELSE natToString(n \div 10) \o <<DigitChar(n % 10)>>
toString(n) == IF n < 0 THEN <<"-">> \o natToString(0 - n) ELSE natToString(n)

\* parts[i] of a JavaScript array, i counted from 0
at(parts, i) == IF i >= 0 /\ i < Len(parts) THEN parts[i + 1] ELSE UNDEF

\* the mate score without the test of the sign
mateScore_unsigned(scoreValue) ==
    IF scoreValue.k # "num" THEN NaN ELSE Num(10000 - scoreValue.v)

\* scoreValue > 0 ? 10000 - scoreValue : -10000 - scoreValue
mateScore(scoreValue) ==
    IF scoreValue.k # "num" THEN NaN
    ELSE Num(IF scoreValue.v > 0 THEN 10000 - scoreValue.v ELSE (0 - 10000) - scoreValue.v)

\* const info: Partial<EngineInfo> = {}; has tells an EngineInfo from null
NoInfo ==
    [has |-> FALSE, depth |-> Undefined, seldepth |-> Undefined, score |-> Undefined,
     nodes |-> Undefined, nps |-> Undefined, time |-> Undefined, pv |-> <<UNDEF>>,
     hashfull |-> Undefined, currmove |-> UNDEF, currmovenumber |-> Undefined]

\* the loop of _parseEngineInfo from parts[i] on
RECURSIVE parseLoop(_, _, _)
parseLoop(parts, i, info) ==
    IF i >= Len(parts) THEN info
    ELSE LET key   == at(parts, i)
             value == at(parts, i + 1)
         IN  CASE key = s_depth ->
                      parseLoop(parts, i + 2, [info EXCEPT !.depth = parseInt(value)])
               [] key = s_seldepth ->
                      parseLoop(parts, i + 2, [info EXCEPT !.seldepth = parseInt(value)])
               [] key = s_score ->
                      LET scoreType  == at(parts, i + 1)
                          scoreValue == parseInt(at(parts, i + 2))
                      IN  parseLoop(parts, i + 3,
                              IF scoreType = s_cp THEN [info EXCEPT !.score = scoreValue]
                              ELSE IF scoreType = s_mate
                              THEN [info EXCEPT !.score = mateScore(scoreValue)]
                              ELSE info)
               [] key = s_nodes ->
                      parseLoop(parts, i + 2, [info EXCEPT !.nodes = parseInt(value)])
               [] key = s_nps ->
                      parseLoop(parts, i + 2, [info EXCEPT !.nps = parseInt(value)])
               [] key = s_time ->
                      parseLoop(parts, i + 2, [info EXCEPT !.time = parseInt(value)])
               [] key = s_pv ->
                      [info EXCEPT !.pv = SubSeq(parts, i + 2, Len(parts))]
               [] key = s_hashfull ->
                      parseLoop(parts, i + 2, [info EXCEPT !.hashfull = parseInt(value)])
               [] key = s_currmove ->
                      parseLoop(parts, i + 2, [info EXCEPT !.currmove = value])
               [] key = s_currmovenumber ->
                      parseLoop(parts, i + 2,
                                [info EXCEPT !.currmovenumber = parseInt(value)])
               [] OTHER -> parseLoop(parts, i + 1, info)

\* StockfishEngine._parseEngineInfo: the EngineInfo of a line, or null
_parseEngineInfo(line) ==
    LET info == parseLoop(splitSpace(line), 1, NoInfo)
    IN  IF info.depth # Undefined THEN [info EXCEPT !.has = TRUE] ELSE NoInfo

\* the 1-based place of the first character of s at or after k that is not a
\* blank, Len(s) + 1 when there is none
RECURSIVE skipSpaces(_, _)
skipSpaces(s, k) == IF k <= Len(s) /\ IsSpace(s[k]) THEN skipSpaces(s, k + 1) ELSE k

\* the 1-based place after the run of non-blank characters of s that starts at k
RECURSIVE skipToken(_, _)
skipToken(s, k) == IF k <= Len(s) /\ ~IsSpace(s[k]) THEN skipToken(s, k + 1) ELSE k

\* /bestmove\s+(\S+)(?:\s+ponder\s+(\S+))?/ tried at the 0-based place i
moveRegexAt(result, i) ==
    LET b  == i + 9
        m1 == skipSpaces(result, b)
        m2 == skipToken(result, m1)
        p0 == skipSpaces(result, m2)
        p1 == skipSpaces(result, p0 + 6)
        p2 == skipToken(result, p1)
        hit == /\ substr(result, i, 8) = s_bestmove
               /\ m1 > b
               /\ m2 > m1
        pon == /\ p0 > m2
               /\ substr(result, p0 - 1, 6) = s_ponder
               /\ p1 > p0 + 6
               /\ p2 > p1
    IN  [ok |-> hit,
         move |-> IF hit THEN SubSeq(result, m1, m2 - 1) ELSE UNDEF,
         ponder |-> IF hit /\ pon THEN SubSeq(result, p1, p2 - 1) ELSE UNDEF]

\* result.match(/bestmove\s+(\S+)(?:\s+ponder\s+(\S+))?/): the leftmost match
execMoveRegex(result) ==
    IF \E i \in 0..Len(result) : moveRegexAt(result, i).ok
    THEN moveRegexAt(result,
                     CHOOSE i \in 0..Len(result) :
                         /\ moveRegexAt(result, i).ok
                         /\ \A j \in 0..(i - 1) : ~moveRegexAt(result, j).ok)
    ELSE [ok |-> FALSE, move |-> UNDEF, ponder |-> UNDEF]

\* String.prototype.includes
Contains(m, w) == \E i \in 0..Len(m) : substr(m, i, Len(w)) = w

RECURSIVE Pow10(_)
Pow10(n) == IF n = 0 THEN 1 ELSE 10 * Pow10(n - 1)

\* /Total evaluation:\s*([-+]?\d*\.?\d+)/ tried at the 0-based place i of a
\* line: whether it matches, and parseFloat of its group as num / den
evalRegexAt(line, i) ==
    LET a    == i + Len(s_TotalEvaluationColon) + 1
        b    == skipSpaces(line, a)
        sgn  == b <= Len(line) /\ line[b] \in {"-", "+"}
        c    == IF sgn THEN b + 1 ELSE b
        ip   == digitsPrefix(SubSeq(line, c, Len(line)))
        e    == c + Len(ip)
        frac == IF e <= Len(line) /\ line[e] = "."
                THEN digitsPrefix(SubSeq(line, e + 1, Len(line))) ELSE <<>>
        mag  == digitsValue(ip, 0) * Pow10(Len(frac)) + digitsValue(frac, 0)
    IN  [ok  |-> /\ substr(line, i, Len(s_TotalEvaluationColon)) = s_TotalEvaluationColon
                 /\ Len(ip) + Len(frac) > 0,
         num |-> IF sgn /\ line[b] = "-" THEN 0 - mag ELSE mag,
         den |-> Pow10(Len(frac))]

\* Math.round(parseFloat(x)) in place of Math.round(parseFloat(x) * 100)
roundTimes100_pawns(num, den) == (2 * num + den) \div (2 * den)

\* Math.round(x * 100) of x = num / den
roundTimes100(num, den) == (200 * num + den) \div (2 * den)

\* the loop over the lines of the result in the callback of evaluate: the
\* evaluation of the first line that holds the field and matches
RECURSIVE evaluationOf(_)
evaluationOf(lines) ==
    IF lines = <<>> THEN 0
    ELSE LET line == Head(lines)
             hits == {i \in 0..Len(line) : evalRegexAt(line, i).ok}
         IN  IF Contains(line, s_TotalEvaluationColon) /\ hits # {}
             THEN LET i == CHOOSE i \in hits : \A j \in hits : i <= j
                      m == evalRegexAt(line, i)
                  IN  roundTimes100(m.num, m.den)
             ELSE evaluationOf(Tail(lines))

\* the callback of `eval` in evaluate: the EvaluationResult it resolves with
evalCallback(result) == [evaluation |-> evaluationOf(split(result)), details |-> result]

\* ------------------------------------------------------------------- state
VARIABLES
    worker,          \* per engine: "none", "running", "terminated" (kill() was called, output
                     \* may still be read), "closed" (killed, and its output has ended),
                     \* "exited" (the process ended on its own, and its output has ended)
    emitted,         \* chunks the adapter read while a command was pending, so far
    queue,           \* per engine: the router queue, as indices into sent
    written,         \* per engine: what worker.postMessage wrote to stdin, in order
    loaded,          \* per engine: engine.loaded
    ready,           \* per engine: engine.ready
    terminations,    \* per engine: calls of worker.terminate()
    sent,            \* every engine.send() call, in call order, with its queue object
    deferred,        \* callbacks scheduled by setTimeout(cb, 0), as indices into sent
    engine,          \* this.engine: 0 is null, g the engine loaded by the g-th _initialize
    isInitialized,   \* this.isInitialized
    initPromise,     \* this.initPromise: 0 is null, p the promise of the p-th _initialize
    promise,         \* per _initialize: "none", "pending", "resolved", "timeout", "error"
    timeout,         \* per _initialize: its setTimeout: "none", "armed", "fired", "cleared"
    pendingCommands, \* per _initialize: the counter of _configureEngine
    inits,           \* _initialize() calls so far
    calls,           \* the facade calls made so far, each an async call with its state
    events,          \* 'ready', 'quit' and 'data' events emitted so far
    options,         \* how many setoption commands the constructor's options ask for
    canLoad,         \* whether the host can create a worker (loadEngine does not throw)
    ops,             \* calls of the public API made by the user so far
    oneShot,         \* the one-shot getAiMove(fen, moves, searchOptions), when it is running
    currentPosition, \* this.currentPosition.fen
    bm,              \* a call of getBestMove(fen, options): its closure and its promise
    input,           \* what the program of a specification was given: the text given
                     \* to a parser, the chunks read, the calls of a function
    output           \* what was made of it: the value parsed, the lines handed on,
                     \* the moveCache, the value returned

vars == <<worker, emitted, queue, written, loaded, ready, terminations, sent,
          deferred, engine, isInitialized, initPromise, promise, timeout,
          pendingCommands, inits, calls, events, options, canLoad, ops, oneShot,
          currentPosition, bm, input, output>>

\* The state as one record, so that a handler and the callbacks it runs compose.
St ==
    [worker |-> worker, emitted |-> emitted, queue |-> queue,
     written |-> written, loaded |-> loaded, ready |-> ready,
     terminations |-> terminations, sent |-> sent, deferred |-> deferred,
     engine |-> engine, isInitialized |-> isInitialized, initPromise |-> initPromise,
     promise |-> promise, timeout |-> timeout, pendingCommands |-> pendingCommands,
     inits |-> inits, calls |-> calls, events |-> events, ops |-> ops,
     oneShot |-> oneShot, currentPosition |-> currentPosition]

Moves(S) ==
    /\ worker' = S.worker
    /\ emitted' = S.emitted
    /\ queue' = S.queue
    /\ written' = S.written
    /\ loaded' = S.loaded
    /\ ready' = S.ready
    /\ terminations' = S.terminations
    /\ sent' = S.sent
    /\ deferred' = S.deferred
    /\ engine' = S.engine
    /\ isInitialized' = S.isInitialized
    /\ initPromise' = S.initPromise
    /\ promise' = S.promise
    /\ timeout' = S.timeout
    /\ pendingCommands' = S.pendingCommands
    /\ inits' = S.inits
    /\ calls' = S.calls
    /\ events' = S.events
    /\ ops' = S.ops
    /\ oneShot' = S.oneShot
    /\ currentPosition' = S.currentPosition
    /\ UNCHANGED <<options, canLoad, bm>>

\* a step of the program that takes the facade and its routers to S
Becomes(S) == Moves(S) /\ UNCHANGED <<input, output>>

\* A callback is a record: k its kind, a the _initialize or the call it belongs to.
NoCb == [k |-> "none", a |-> 0]
Cb(k, a) == [k |-> k, a |-> a]

\* ------------------------------------------------------------------ router
\* worker.postMessage: engine.stdin.write(str + "\n")
postMessage(w, str) == Append(w, str \o NL)

\* send without the setTimeout(cb, 0) of a command that gets no reply
send_noTimer(S, g, cmdIn, cb) ==
    LET cmd == trim(cmdIn)
        id  == Len(S.sent) + 1
        obj == [g |-> g, cmd |-> cmd, cb |-> cb, queued |-> ~noReply(cmd),
                message |-> <<>>, invoked |-> 0, result |-> <<>>]
    IN  [S EXCEPT !.sent = Append(@, obj),
                  !.queue[g] = IF noReply(cmd) THEN @ ELSE Append(@, id),
                  !.written[g] = postMessage(@, cmd)]

\* send with queue.unshift in place of queue.push
send_unshift(S, g, cmdIn, cb) ==
    LET cmd == trim(cmdIn)
        id  == Len(S.sent) + 1
        obj == [g |-> g, cmd |-> cmd, cb |-> cb, queued |-> ~noReply(cmd),
                message |-> <<>>, invoked |-> 0, result |-> <<>>]
    IN  [S EXCEPT !.sent = Append(@, obj),
                  !.queue[g] = IF noReply(cmd) THEN @ ELSE <<id>> \o @,
                  !.written[g] = postMessage(@, cmd),
                  !.deferred = IF noReply(cmd) /\ cb.k # "none" THEN Append(@, id) ELSE @]

\* engine.send(cmd, cb) on the router of engine g
send(S, g, cmdIn, cb) ==
    LET cmd == trim(cmdIn)
        id  == Len(S.sent) + 1
        obj == [g |-> g, cmd |-> cmd, cb |-> cb, queued |-> ~noReply(cmd),
                message |-> <<>>, invoked |-> 0, result |-> <<>>]
    IN  [S EXCEPT !.sent = Append(@, obj),
                  !.queue[g] = IF noReply(cmd) THEN @ ELSE Append(@, id),
                  !.written[g] = postMessage(@, cmd),
                  !.deferred = IF noReply(cmd) /\ cb.k # "none" THEN Append(@, id) ELSE @]

\* engine.quit = worker.terminate = engine.kill()
terminate(S, g) ==
    [S EXCEPT !.terminations[g] = @ + 1,
              !.worker[g] = IF @ = "running" THEN "terminated" ELSE @]

\* ------------------------------------------------------------------ facade
\* resolve() / reject() of the promise of the p-th _initialize: a settled
\* promise stays as it is
settle(S, p, how) == [S EXCEPT !.promise[p] = IF @ = "pending" THEN how ELSE @]

clearTimeout(S, p) == [S EXCEPT !.timeout[p] = IF @ = "armed" THEN "cleared" ELSE @]

\* initialized without its clearTimeout(timeout)
initialized_noClear(S, p) ==
    settle([S EXCEPT !.isInitialized = TRUE, !.events.ready = @ + 1], p, "resolved")

\* _initialize, after `await this._configureEngine()` returned
initialized(S, p) ==
    LET S1 == clearTimeout(S, p)
        S2 == [S1 EXCEPT !.isInitialized = TRUE, !.events.ready = @ + 1]
    IN  settle(S2, p, "resolved")

\* _initialize, the catch blocks
initFailed(S, p) == settle(clearTimeout(S, p), p, "error")

\* the i-th setoption command of _configureEngine
s_setThreads == s_setoption \o SP \o <<"n", "a", "m", "e">> \o SP
                \o <<"T", "h", "r", "e", "a", "d", "s">> \o SP
                \o <<"v", "a", "l", "u", "e">> \o SP \o <<"2">>
s_setHash == s_setoption \o SP \o <<"n", "a", "m", "e">> \o SP
             \o <<"H", "a", "s", "h">> \o SP
             \o <<"v", "a", "l", "u", "e">> \o SP \o <<"3", "2">>
s_setCustom == s_setoption \o SP \o <<"n", "a", "m", "e">> \o SP
               \o <<"P", "o", "n", "d", "e", "r">> \o SP
               \o <<"v", "a", "l", "u", "e">> \o SP \o <<"t", "r", "u", "e">>
optionCommand(i) == IF i = 1 THEN s_setThreads ELSE IF i = 2 THEN s_setHash ELSE s_setCustom

RECURSIVE sendOptions(_, _, _)
sendOptions(S, p, i) ==
    IF i > options THEN S
    ELSE sendOptions(
             send([S EXCEPT !.pendingCommands[p] = @ + 1], S.engine, optionCommand(i),
                  Cb("onComplete", p)),
             p, i + 1)

\* _configureEngine and what follows its await in the isready callback
_configureEngine(S, p) ==
    IF options = 0 THEN initialized(S, p)
    ELSE IF S.engine = 0 THEN initFailed(S, p)
    ELSE sendOptions(S, p, 1)

\* onComplete that resolves at every acknowledgement
onComplete_each(S, p) == initialized([S EXCEPT !.pendingCommands[p] = @ - 1], p)

\* onComplete of _configureEngine
onComplete(S, p) ==
    LET S1 == [S EXCEPT !.pendingCommands[p] = @ - 1]
    IN  IF S1.pendingCommands[p] = 0 THEN initialized(S1, p) ELSE S1

\* the callback of `uci`: this.engine.send('isready', ...); with this.engine
\* null the call throws out of the callback and nothing else happens
uciCallback(S, p) ==
    IF S.engine = 0 THEN S ELSE send(S, S.engine, s_isready, Cb("isready", p))

\* the outcome of facade call c
finish(S, c, st, err) == [S EXCEPT !.calls[c].st = st, !.calls[c].err = err]

\* _executeSearch with the info handler of the facade kept from search to search
_executeSearch_sharedInfo(S, c) ==
    LET last == IF c > 1 THEN S.calls[c - 1].lastInfo ELSE NoInfo
        S1   == [S EXCEPT !.calls[c].listening = TRUE, !.calls[c].lastInfo = last]
    IN  IF S.engine = 0 THEN S1 ELSE send(S1, S.engine, s_go, Cb("go", c))

\* _executeSearch: lastInfo = null, this.on('info', infoHandler), then the send
\* of `go`; with this.engine null, send throws
_executeSearch(S, c) ==
    LET S1 == [S EXCEPT !.calls[c].listening = TRUE, !.calls[c].lastInfo = NoInfo]
    IN  IF S.engine = 0 THEN S1 ELSE send(S1, S.engine, s_go, Cb("go", c))

\* the callback of `go` in _executeSearch: removeListener, the match, the
\* MoveInfo with the fields of lastInfo
goCallback(S, c, result) ==
    LET S1 == [S EXCEPT !.calls[c].listening = FALSE]
        m  == execMoveRegex(result)
    IN  IF ~m.ok THEN finish(S1, c, "rejected", "nomove")
        ELSE finish([S1 EXCEPT !.calls[c].move = m.move,
                               !.calls[c].ponder = m.ponder,
                               !.calls[c].stats = S1.calls[c].lastInfo],
                    c, "resolved", "none")

\* the callback cb of sent[id], called with result
invoke(S, id, result) ==
    LET cb == S.sent[id].cb
        S1 == [S EXCEPT !.sent[id].invoked = @ + 1, !.sent[id].result = result]
    IN  CASE cb.k = "none" -> S
          [] cb.k = "raw" -> S1
          [] cb.k = "uci" -> uciCallback(S1, cb.a)
          [] cb.k = "isready" -> _configureEngine(S1, cb.a)
          [] cb.k = "onComplete" -> onComplete(S1, cb.a)
          [] cb.k = "position" -> finish(S1, cb.a, "resolved", "none")
          [] cb.k = "stop" -> finish(S1, cb.a, "resolved", "none")
          [] cb.k = "multipv" -> _executeSearch(S1, cb.a)
          [] cb.k = "go" -> goCallback(S1, cb.a, result)
          [] cb.k = "eval" ->
                 finish([S1 EXCEPT !.calls[cb.a].evaluation = evalCallback(result)],
                        cb.a, "resolved", "none")

\* the chain of tests without `myQueue.message = line` for a bestmove line
completion_keepAll(line, cmd, message) ==
    IF line = s_uciok THEN [done |-> TRUE, message |-> message]
    ELSE IF line = s_readyok THEN [done |-> TRUE, message |-> message]
    ELSE IF substr(line, 0, 8) = s_bestmove /\ cmd # s_bench
    THEN [done |-> TRUE, message |-> message]
    ELSE IF cmd = s_d
    THEN IF substr(line, 0, 15) = s_LegalUciMoves \/ substr(line, 0, 6) = s_KeyIs
         THEN [done |-> TRUE,
               message |-> IF line = s_KeyIs THEN sliceEnd(message, 7) ELSE message]
         ELSE [done |-> FALSE, message |-> message]
    ELSE IF cmd = s_eval
    THEN [done |-> evalRegexTest(message), message |-> message]
    ELSE IF substr(line, 0, 8) = s_pawnKey THEN [done |-> TRUE, message |-> message]
    ELSE IF substr(line, 0, 12) = s_NodesSecond THEN [done |-> TRUE, message |-> message]
    ELSE IF substr(line, 0, 15) = s_UnknownCommand THEN [done |-> TRUE, message |-> message]
    ELSE [done |-> FALSE, message |-> message]

\* ------------------------------------------------------- router, incoming
\* what the chain of tests in worker.onmessage decides for a line appended to
\* myQueue: whether the command is done, and its message afterwards
completion(line, cmd, message) ==
    IF line = s_uciok THEN [done |-> TRUE, message |-> message]
    ELSE IF line = s_readyok THEN [done |-> TRUE, message |-> message]
    ELSE IF substr(line, 0, 8) = s_bestmove /\ cmd # s_bench
    THEN [done |-> TRUE, message |-> line]
    ELSE IF cmd = s_d
    THEN IF substr(line, 0, 15) = s_LegalUciMoves \/ substr(line, 0, 6) = s_KeyIs
         THEN [done |-> TRUE,
               message |-> IF line = s_KeyIs THEN sliceEnd(message, 7) ELSE message]
         ELSE [done |-> FALSE, message |-> message]
    ELSE IF cmd = s_eval
    THEN [done |-> evalRegexTest(message), message |-> message]
    ELSE IF substr(line, 0, 8) = s_pawnKey THEN [done |-> TRUE, message |-> message]
    ELSE IF substr(line, 0, 12) = s_NodesSecond THEN [done |-> TRUE, message |-> message]
    ELSE IF substr(line, 0, 15) = s_UnknownCommand THEN [done |-> TRUE, message |-> message]
    ELSE [done |-> FALSE, message |-> message]

\* a completed command left in the queue
splice_none(q, queueNum) == q

\* queue.splice(queueNum, 1)
splice(q, queueNum) == SubSeq(q, 1, queueNum) \o SubSeq(q, queueNum + 2, Len(q))

\* the `go` of call c is in the router queue of engine g
GoOutstanding(S, c, g) ==
    \E i \in 1..Len(S.queue[g]) : S.sent[S.queue[g][i]].cb = Cb("go", c)

\* engine.stream as _initialize sets it: emit('data', line), _parseInfoLine(line),
\* and so the infoHandler of every search that listens; a program that drives
\* the router itself sets a stream that counts the lines it is given
stream(S, line) ==
    LET info == IF substr(line, 0, 5) = s_infoSp THEN _parseEngineInfo(line) ELSE NoInfo
        heard(c) ==
            [S.calls[c] EXCEPT
                !.lastInfo = IF S.calls[c].listening /\ info.has THEN info ELSE @,
                !.window = IF \E g \in Gens : GoOutstanding(S, c, g)
                           THEN Append(@, line) ELSE @]
    IN  [S EXCEPT !.events.data = @ + 1,
                  !.calls = SubSeq([c \in 1..Len(S.calls) |-> heard(c)], 1, Len(S.calls))]

\* worker.onmessage without the test of queue.length around the stream
\* handler and the flags
onLine_unguarded(S, g, line) ==
    IF Len(S.queue[g]) = 0
    THEN [stream(S, line) EXCEPT !.loaded[g] = IF line = s_uciok THEN TRUE ELSE @,
                                 !.ready[g] = IF line = s_readyok THEN TRUE ELSE @]
    ELSE LET q        == S.queue[g]
             queueNum == determineQueueNum(line, [i \in 1..Len(q) |-> S.sent[q[i]].cmd])
             id       == q[queueNum + 1]
             myQueue  == S.sent[id]
             c        == completion(line, myQueue.cmd, myQueue.message \o line)
             S0       == stream(S, line)
             S1       == [S0 EXCEPT !.sent[id].message = c.message,
                                   !.loaded[g] = IF line = s_uciok THEN TRUE ELSE @,
                                   !.ready[g] = IF line = s_readyok THEN TRUE ELSE @]
         IN  IF c.done
             THEN invoke([S1 EXCEPT !.queue[g] = splice(@, queueNum)], id, c.message)
             ELSE S1

\* worker.onmessage with the stream handler called after the completion callback
onLine_callbackFirst(S, g, line) ==
    IF Len(S.queue[g]) = 0 THEN S
    ELSE LET q        == S.queue[g]
             queueNum == determineQueueNum(line, [i \in 1..Len(q) |-> S.sent[q[i]].cmd])
             id       == q[queueNum + 1]
             myQueue  == S.sent[id]
             c        == completion(line, myQueue.cmd, myQueue.message \o line)
             S1       == [S EXCEPT !.sent[id].message = c.message,
                                  !.loaded[g] = IF line = s_uciok THEN TRUE ELSE @,
                                  !.ready[g] = IF line = s_readyok THEN TRUE ELSE @]
         IN  stream(IF c.done
                    THEN invoke([S1 EXCEPT !.queue[g] = splice(@, queueNum)], id, c.message)
                    ELSE S1,
                    line)

\* worker.onmessage with the callback called first and the completed command
\* taken off the queue afterwards with queue.pop()
onLine_popAfterCallback(S, g, line) ==
    IF Len(S.queue[g]) = 0 THEN S
    ELSE LET q        == S.queue[g]
             queueNum == determineQueueNum(line, [i \in 1..Len(q) |-> S.sent[q[i]].cmd])
             id       == q[queueNum + 1]
             myQueue  == S.sent[id]
             c        == completion(line, myQueue.cmd, myQueue.message \o line)
             S0       == stream(S, line)
             S1       == [S0 EXCEPT !.sent[id].message = c.message,
                                   !.loaded[g] = IF line = s_uciok THEN TRUE ELSE @,
                                   !.ready[g] = IF line = s_readyok THEN TRUE ELSE @]
         IN  IF c.done
             THEN LET S2 == invoke(S1, id, c.message)
                  IN  [S2 EXCEPT !.queue[g] = SubSeq(@, 1, Len(@) - 1)]
             ELSE S1

\* worker.onmessage of engine g for a line without a newline
onLine(S, g, line) ==
    IF Len(S.queue[g]) = 0 THEN S
    ELSE LET q        == S.queue[g]
             queueNum == determineQueueNum(line, [i \in 1..Len(q) |-> S.sent[q[i]].cmd])
             id       == q[queueNum + 1]
             myQueue  == S.sent[id]
             c        == completion(line, myQueue.cmd, myQueue.message \o line)
             S0       == stream(S, line)
             S1       == [S0 EXCEPT !.sent[id].message = c.message,
                                   !.loaded[g] = IF line = s_uciok THEN TRUE ELSE @,
                                   !.ready[g] = IF line = s_readyok THEN TRUE ELSE @]
         IN  IF c.done
             THEN invoke([S1 EXCEPT !.queue[g] = splice(@, queueNum)], id, c.message)
             ELSE S1

\* the loop over the lines of a chunk: each non-blank line is given to onmessage
RECURSIVE onLines(_, _, _)
onLines(S, g, lines) ==
    IF lines = <<>> THEN S
    ELSE onLines(IF trim(Head(lines)) # <<>> THEN onLine(S, g, Head(lines)) ELSE S,
                 g, Tail(lines))

\* worker.onmessage of engine g
onmessage(S, g, data) ==
    IF indexOf(data, "\n") > -1 THEN onLines(S, g, split(data)) ELSE onLine(S, g, data)

\* echo: the adapter's stdout/stderr handler
echo(S, g, data) ==
    onmessage(S, g, IF sliceLast(data, 1) = NL THEN sliceEnd(data, 1) ELSE data)

\* ------------------------------------------------------------ facade, API
\* StockfishEngine._initialize: the executor of its promise
_initialize(S) ==
    LET p  == S.inits + 1
        S1 == [S EXCEPT !.inits = p, !.promise[p] = "pending", !.timeout[p] = "armed"]
    IN  IF canLoad
        THEN send([S1 EXCEPT !.engine = p, !.worker[p] = "running"], p, s_uci, Cb("uci", p))
        ELSE initFailed(S1, p)

\* init without the test of this.initPromise
init_noShare(S) ==
    IF S.isInitialized THEN [S |-> S, p |-> 0]
    ELSE [S |-> [_initialize(S) EXCEPT !.initPromise = S.inits + 1], p |-> S.inits + 1]

\* StockfishEngine.init: the state after it and the promise it returns
\* (0: already resolved)
init(S) ==
    IF S.isInitialized THEN [S |-> S, p |-> 0]
    ELSE IF S.initPromise # 0 THEN [S |-> S, p |-> S.initPromise]
    ELSE [S |-> [_initialize(S) EXCEPT !.initPromise = S.inits + 1], p |-> S.inits + 1]

\* init() may start an _initialize only while the bound allows one more
CanInit == isInitialized \/ initPromise # 0 \/ inits < MaxInits

\* a call of an async method of the facade: its arguments, the promise of init
\* it awaits, how it settled and with what; listening and lastInfo are the
\* infoHandler and the lastInfo of its _executeSearch; window holds the lines
\* that reached the facade while its `go` was outstanding
Call(op, st, err, p, multiPV) ==
    [op |-> op, st |-> st, err |-> err, p |-> p, multiPV |-> multiPV,
     afterQuit |-> events.quit > 0, quitWhileSearching |-> 0,
     fen |-> s_startFen, listening |-> FALSE, lastInfo |-> NoInfo, window |-> <<>>,
     move |-> UNDEF, ponder |-> UNDEF, stats |-> NoInfo,
     evaluation |-> [evaluation |-> 0, details |-> <<>>]]

\* an async method up to its `await this.init()`
awaitInit(S, op, multiPV) ==
    LET r == init(S)
    IN  [r.S EXCEPT !.calls = Append(@, Call(op, "await", "none", r.p, multiPV))]

s_positionStartpos == s_position \o SP \o <<"s", "t", "a", "r", "t", "p", "o", "s">>

\* positionCommand of setPosition for a position without moves
positionCommand(fen) ==
    IF fen = s_startFen THEN s_positionStartpos ELSE s_position \o SP \o s_fen \o SP \o fen

\* setPosition without the store of the position
setPosition_noStore(S, c) ==
    IF S.engine = 0 THEN finish(S, c, "rejected", "error")
    ELSE send([S EXCEPT !.calls[c].st = "sent"], S.engine,
              positionCommand(S.calls[c].fen), Cb("position", c))
s_setMultiPV == s_setoption \o SP \o <<"n", "a", "m", "e">> \o SP
                \o <<"M", "u", "l", "t", "i", "P", "V">> \o SP
                \o <<"v", "a", "l", "u", "e">> \o SP \o <<"2">>

\* StockfishEngine.setPosition after its await: with this.engine null the
\* executor throws and the promise is rejected
setPosition(S, c) ==
    LET S1 == [S EXCEPT !.currentPosition = S.calls[c].fen]
    IN  IF S.engine = 0 THEN finish(S1, c, "rejected", "error")
        ELSE send([S1 EXCEPT !.calls[c].st = "sent"], S.engine,
                  positionCommand(S.calls[c].fen), Cb("position", c))

\* getAiMove that never sets MultiPV
getAiMove_direct(S, c) ==
    IF S.engine = 0 THEN finish(S, c, "rejected", "error")
    ELSE _executeSearch([S EXCEPT !.calls[c].st = "sent"], c)

\* StockfishEngine.getAiMove after its await
getAiMove(S, c) ==
    IF S.engine = 0 THEN finish(S, c, "rejected", "error")
    ELSE IF S.calls[c].multiPV
    THEN send([S EXCEPT !.calls[c].st = "sent"], S.engine, s_setMultiPV, Cb("multipv", c))
    ELSE _executeSearch([S EXCEPT !.calls[c].st = "sent"], c)

\* StockfishEngine.evaluate after its await
evaluate(S, c) ==
    IF S.engine = 0 THEN finish(S, c, "rejected", "error")
    ELSE send([S EXCEPT !.calls[c].st = "sent"], S.engine, s_eval, Cb("eval", c))

\* StockfishEngine.stop
stop(S) ==
    LET c == Len(S.calls) + 1
    IN  IF ~S.isInitialized
        THEN [S EXCEPT !.calls = Append(@, Call("stop", "resolved", "none", 0, FALSE))]
        ELSE IF S.engine = 0
        THEN [S EXCEPT !.calls = Append(@, Call("stop", "rejected", "error", 0, FALSE))]
        ELSE send([S EXCEPT !.calls = Append(@, Call("stop", "sent", "none", 0, FALSE))],
                  S.engine, s_stop, Cb("stop", c))

\* quit without `this.engine = null`
quit_keepsEngine(S) ==
    LET S1 == IF S.engine # 0 THEN terminate(S, S.engine) ELSE S
    IN  [S1 EXCEPT !.isInitialized = FALSE, !.initPromise = 0, !.events.quit = @ + 1]

\* StockfishEngine.quit; the calls whose search is outstanding on the engine
\* it terminates are marked with that engine, for the properties
quit(S) ==
    LET S1 == IF S.engine # 0 THEN [terminate(S, S.engine) EXCEPT !.engine = 0] ELSE S
    IN  [S1 EXCEPT !.isInitialized = FALSE, !.initPromise = 0, !.events.quit = @ + 1,
                   !.calls = SubSeq([c \in 1..Len(@) |->
                                        IF S.engine # 0 /\ GoOutstanding(S, c, S.engine)
                                        THEN [@[c] EXCEPT !.quitWhileSearching = S.engine]
                                        ELSE @[c]], 1, Len(@))]

\* the continuation of call c after `await this.init()`
resume(S, c) ==
    LET call == S.calls[c]
    IN  IF call.p # 0 /\ S.promise[call.p] \in {"timeout", "error"}
        THEN finish(S, c, "rejected", S.promise[call.p])
        ELSE CASE call.op = "init" -> finish(S, c, "resolved", "none")
               [] call.op = "setPosition" -> setPosition(S, c)
               [] call.op = "getAiMove" -> getAiMove(S, c)
               [] call.op = "evaluate" -> evaluate(S, c)

\* call c waits on a promise that is settled: its continuation is a microtask
Resumable(c) ==
    /\ calls[c].st = "await"
    /\ (IF calls[c].p = 0 THEN TRUE ELSE promise[calls[c].p] # "pending")

Settled(c) == calls[c].st \in {"resolved", "rejected"}

\* the one-shot getAiMove(fen, moves, searchOptions) can go on: the call it
\* awaits is settled
OneShotResumable ==
    /\ oneShot.pc \in {"init", "setPosition", "getAiMove"}
    /\ Settled(oneShot.c)

\* Microtasks run before the next timer or I/O callback.
MicrotaskPending == OneShotResumable \/ \E c \in 1..Len(calls) : Resumable(c)

\* no getBestMove(fen, options) was called
NoBm == [pc |-> "none"]

\* ----------------------------------------------------------------- actions
TypeOK ==
    /\ engine \in 0..MaxInits
    /\ initPromise \in 0..MaxInits
    /\ inits \in 0..MaxInits
    /\ isInitialized \in BOOLEAN

\* a facade as its constructor leaves it, no engine loaded
Fresh ==
    /\ worker = [g \in Gens |-> "none"]
    /\ emitted = 0
    /\ queue = [g \in Gens |-> <<>>]
    /\ written = [g \in Gens |-> <<>>]
    /\ loaded = [g \in Gens |-> FALSE]
    /\ ready = [g \in Gens |-> FALSE]
    /\ terminations = [g \in Gens |-> 0]
    /\ sent = <<>>
    /\ deferred = <<>>
    /\ engine = 0
    /\ isInitialized = FALSE
    /\ initPromise = 0
    /\ promise = [g \in Gens |-> "none"]
    /\ timeout = [g \in Gens |-> "none"]
    /\ pendingCommands = [g \in Gens |-> 0]
    /\ inits = 0
    /\ calls = <<>>
    /\ events = [ready |-> 0, quit |-> 0, data |-> 0]
    /\ ops = 0
    /\ oneShot = [pc |-> "idle", c |-> 0, result |-> "none"]
    /\ currentPosition = s_startFen

Init ==
    /\ Fresh
    /\ options \in 0..MaxOpts
    /\ canLoad \in BOOLEAN
    /\ bm = NoBm
    /\ input = <<>>
    /\ output = <<>>

UserMay == ops < MaxCalls /\ ops + emitted < MaxEvents /\ oneShot.pc = "idle"

\* the user calls engine.init()
UserInit ==
    /\ UserMay
    /\ CanInit
    /\ Becomes([awaitInit(St, "init", FALSE) EXCEPT !.ops = @ + 1])

\* the user calls engine.setPosition(position)
UserSetPosition ==
    /\ UserMay
    /\ CanInit
    /\ Becomes([awaitInit(St, "setPosition", FALSE) EXCEPT !.ops = @ + 1])

\* the user calls engine.getAiMove(searchOptions)
UserGetAiMove ==
    /\ UserMay
    /\ CanInit
    /\ \E multiPV \in BOOLEAN :
          Becomes([awaitInit(St, "getAiMove", multiPV) EXCEPT !.ops = @ + 1])

\* the user calls engine.evaluate()
UserEvaluate ==
    /\ UserMay
    /\ CanInit
    /\ Becomes([awaitInit(St, "evaluate", FALSE) EXCEPT !.ops = @ + 1])

\* the user calls engine.stop()
UserStop ==
    /\ UserMay
    /\ Becomes([stop(St) EXCEPT !.ops = @ + 1])

\* the user calls engine.quit()
UserQuit ==
    /\ UserMay
    /\ Becomes([quit(St) EXCEPT !.ops = @ + 1])

\* a microtask: the continuation of a call whose awaited promise is settled
Resume ==
    \E c \in 1..Len(calls) :
        /\ Resumable(c)
        /\ Becomes(resume(St, c))

\* the timer of _initialize fires: reject(new Error('... timeout ...'))
InitTimeout ==
    \E p \in Gens :
        /\ timeout[p] = "armed"
        /\ ~MicrotaskPending
        /\ Becomes(settle([St EXCEPT !.timeout[p] = "fired"], p, "timeout"))

\* a setTimeout(cb, 0) of engine.send fires
Timer0 ==
    /\ deferred # <<>>
    /\ ~MicrotaskPending
    /\ Becomes(invoke([St EXCEPT !.deferred = Tail(@)], Head(deferred), <<>>))

l_bestmove == s_bestmove \o SP \o <<"e", "2", "e", "4">>
l_info == s_info \o SP \o <<"d", "e", "p", "t", "h">> \o SP \o <<"1">>
l_uciokReadyok == s_uciok \o NL \o s_readyok \o NL

\* what the engine process may write in one chunk
Chunks == {s_uciok, s_readyok, l_bestmove, s_UnknownCommand}

\* the engine process ends on its own, all its output read; nothing in the
\* adapter listens for it
EngineExit ==
    \E g \in Gens :
        /\ worker[g] = "running"
        /\ worker' = [worker EXCEPT ![g] = "exited"]
        /\ UNCHANGED <<emitted, queue, written, loaded, ready, terminations, sent,
                       deferred, engine, isInitialized, initPromise, promise, timeout,
                       pendingCommands, inits, calls, events, options, canLoad, ops,
                       oneShot, currentPosition, bm, input, output>>

\* the output of a process that was killed is read to its end
OutputEnd ==
    \E g \in Gens :
        /\ worker[g] = "terminated"
        /\ worker' = [worker EXCEPT ![g] = "closed"]
        /\ UNCHANGED <<emitted, queue, written, loaded, ready, terminations, sent,
                       deferred, engine, isInitialized, initPromise, promise, timeout,
                       pendingCommands, inits, calls, events, options, canLoad, ops,
                       oneShot, currentPosition, bm, input, output>>

\* the adapter reads a chunk the process wrote: stdout 'data' -> echo ->
\* worker.onmessage; what a process wrote before it was killed may still be
\* read afterwards
Read(g, data) ==
    /\ worker[g] \in {"running", "terminated"}
    /\ emitted < MaxLines
    /\ ops + emitted < MaxEvents
    /\ ~MicrotaskPending
    /\ Becomes(echo([St EXCEPT !.emitted = IF queue[g] = <<>> THEN @ ELSE @ + 1], g, data))

Deliver == \E g \in Gens, data \in Chunks : Read(g, data)

\* getAiMove(fen, moves, searchOptions): const engine = new StockfishEngine();
\* try { await engine.init(); ...
OneShotStart ==
    /\ oneShot.pc = "idle"
    /\ ops = 0
    /\ events.quit = 0
    /\ options = 0
    /\ Becomes([awaitInit(St, "init", FALSE) EXCEPT
                   !.oneShot = [pc |-> "init", c |-> 1, result |-> "none"]])

\* the one-shot getAiMove with quit() after the search only, not in a finally
oneShotNext_noFinally(S) ==
    LET o == S.oneShot
    IN  IF S.calls[o.c].st = "rejected"
        THEN [S EXCEPT !.oneShot = [pc |-> "done", c |-> o.c, result |-> "rejected"]]
        ELSE IF o.pc = "init"
        THEN [awaitInit(S, "setPosition", FALSE) EXCEPT
                 !.oneShot = [pc |-> "setPosition", c |-> o.c + 1, result |-> "none"]]
        ELSE IF o.pc = "setPosition"
        THEN [awaitInit(S, "getAiMove", FALSE) EXCEPT
                 !.oneShot = [pc |-> "getAiMove", c |-> o.c + 1, result |-> "none"]]
        ELSE [quit(S) EXCEPT !.oneShot = [pc |-> "done", c |-> o.c, result |-> "resolved"]]

\* the one-shot getAiMove after an await: the next call, or the finally block
oneShotNext(S) ==
    LET o == S.oneShot
    IN  IF S.calls[o.c].st = "rejected"
        THEN [quit(S) EXCEPT !.oneShot = [pc |-> "done", c |-> o.c, result |-> "rejected"]]
        ELSE IF o.pc = "init"
        THEN [awaitInit(S, "setPosition", FALSE) EXCEPT
                 !.oneShot = [pc |-> "setPosition", c |-> o.c + 1, result |-> "none"]]
        ELSE IF o.pc = "setPosition"
        THEN [awaitInit(S, "getAiMove", FALSE) EXCEPT
                 !.oneShot = [pc |-> "getAiMove", c |-> o.c + 1, result |-> "none"]]
        ELSE [quit(S) EXCEPT !.oneShot = [pc |-> "done", c |-> o.c, result |-> "resolved"]]

OneShotNext ==
    /\ OneShotResumable
    /\ Becomes(oneShotNext(St))

Next ==
    \/ UserInit
    \/ UserSetPosition
    \/ UserGetAiMove
    \/ UserEvaluate
    \/ UserStop
    \/ UserQuit
    \/ Resume
    \/ InitTimeout
    \/ Timer0
    \/ EngineExit
    \/ OutputEnd
    \/ Deliver
    \/ OneShotStart
    \/ OneShotNext

Spec == Init /\ [][Next]_vars

\* ------------------------------------------- the router used on its own
\* loadEngine() called by a program that drives the router itself
RouterInit ==
    /\ worker = [g \in Gens |-> IF g = 1 THEN "running" ELSE "none"]
    /\ emitted = 0
    /\ queue = [g \in Gens |-> <<>>]
    /\ written = [g \in Gens |-> <<>>]
    /\ loaded = [g \in Gens |-> FALSE]
    /\ ready = [g \in Gens |-> FALSE]
    /\ terminations = [g \in Gens |-> 0]
    /\ sent = <<>>
    /\ deferred = <<>>
    /\ engine = 0
    /\ isInitialized = FALSE
    /\ initPromise = 0
    /\ promise = [g \in Gens |-> "none"]
    /\ timeout = [g \in Gens |-> "none"]
    /\ pendingCommands = [g \in Gens |-> 0]
    /\ inits = 0
    /\ calls = <<>>
    /\ events = [ready |-> 0, quit |-> 0, data |-> 0]
    /\ options = 0
    /\ canLoad = TRUE
    /\ ops = 0
    /\ oneShot = [pc |-> "idle", c |-> 0, result |-> "none"]
    /\ currentPosition = s_startFen
    /\ bm = NoBm
    /\ input = <<>>
    /\ output = <<>>

s_goPadded == SP \o s_go \o SP

\* the commands the program sends
RouterCmds == {s_uci, s_isready, s_goPadded, s_d, s_stop, s_positionStartpos}

\* what the engine process may write in one chunk
RouterChunks == {s_uciok, s_readyok, l_info, l_bestmove, s_KeyIs, s_UnknownCommand,
                 l_uciokReadyok}

\* the program calls engine.send(cmd, cb) or engine.send(cmd)
RouterSend ==
    \E cmd \in RouterCmds, cb \in {Cb("raw", 0), NoCb} :
        /\ Len(sent) < MaxSends
        /\ Becomes(send(St, 1, cmd, cb))

RouterDeliver == \E data \in RouterChunks : Read(1, data)

RouterNext ==
    \/ RouterSend
    \/ RouterDeliver
    \/ Timer0

RouterSpec == RouterInit /\ [][RouterNext]_vars

\* ------------------------------------- a facade whose init() has resolved
\* calls the user makes after init(), and chunks read after the handshake
MaxSessionCalls == 3
MaxSessionLines == 3

l_infoScore == <<"i", "n", "f", "o", " ", "d", "e", "p", "t", "h", " ", "2", " ", "s", "c", "o", "r", "e", " ", "c", "p", " ", "3", "5", " ", "n", "o", "d", "e", "s", " ", "9", " ", "p", "v", " ", "e", "2", "e", "4", " ", "e", "7", "e", "5">>
l_infoString == <<"i", "n", "f", "o", " ", "s", "t", "r", "i", "n", "g", " ", "N", "N", "U", "E">>
l_bestmovePonder == <<"b", "e", "s", "t", "m", "o", "v", "e", " ", "e", "7", "e", "8", "q", " ", "p", "o", "n", "d", "e", "r", " ", "a", "7", "a", "6">>
l_bestmoveNone == <<"b", "e", "s", "t", "m", "o", "v", "e", " ", "(", "n", "o", "n", "e", ")">>

\* the state after `await engine.init()` on a new facade without options: uci
\* and isready were sent and answered, the timer cleared, 'ready' emitted
SessionInit ==
    /\ worker = [g \in Gens |-> IF g = 1 THEN "running" ELSE "none"]
    /\ emitted = 2
    /\ queue = [g \in Gens |-> <<>>]
    /\ written = [g \in Gens |-> IF g = 1 THEN <<s_uci \o NL, s_isready \o NL>> ELSE <<>>]
    /\ loaded = [g \in Gens |-> g = 1]
    /\ ready = [g \in Gens |-> g = 1]
    /\ terminations = [g \in Gens |-> 0]
    /\ sent = <<[g |-> 1, cmd |-> s_uci, cb |-> Cb("uci", 1), queued |-> TRUE,
                 message |-> s_uciok, invoked |-> 1, result |-> s_uciok],
                [g |-> 1, cmd |-> s_isready, cb |-> Cb("isready", 1), queued |-> TRUE,
                 message |-> s_readyok, invoked |-> 1, result |-> s_readyok]>>
    /\ deferred = <<>>
    /\ engine = 1
    /\ isInitialized = TRUE
    /\ initPromise = 1
    /\ promise = [g \in Gens |-> IF g = 1 THEN "resolved" ELSE "none"]
    /\ timeout = [g \in Gens |-> IF g = 1 THEN "cleared" ELSE "none"]
    /\ pendingCommands = [g \in Gens |-> 0]
    /\ inits = 1
    /\ events = [ready |-> 1, quit |-> 0, data |-> 2]
    /\ calls = <<Call("init", "resolved", "none", 1, FALSE)>>
    /\ options = 0
    /\ canLoad = TRUE
    /\ ops = 1
    /\ oneShot = [pc |-> "idle", c |-> 0, result |-> "none"]
    /\ currentPosition = s_startFen
    /\ bm = NoBm
    /\ input = <<>>
    /\ output = <<>>

\* the positions the user sets
Fens == {s_startFen, s_fenKings, s_fenFiveFields}

\* what the engine process may write in one chunk during a session
SessionChunks == {l_info, l_infoScore, l_infoString, l_bestmove, l_bestmovePonder,
                  l_bestmoveNone}

SessionMay == ops - 1 < MaxSessionCalls

\* the position argument of the call just made
withFen(S, fen) == [S EXCEPT !.calls[Len(S.calls)].fen = fen]

\* the user calls engine.setPosition({fen})
SessionSetPosition ==
    \E fen \in Fens :
        /\ SessionMay
        /\ Becomes([withFen(awaitInit(St, "setPosition", FALSE), fen) EXCEPT !.ops = @ + 1])

\* the user calls engine.getAiMove(searchOptions)
SessionGetAiMove ==
    /\ SessionMay
    /\ Becomes([awaitInit(St, "getAiMove", FALSE) EXCEPT !.ops = @ + 1])

\* the user calls engine.evaluate()
SessionEvaluate ==
    /\ SessionMay
    /\ Becomes([awaitInit(St, "evaluate", FALSE) EXCEPT !.ops = @ + 1])

\* the user calls engine.stop()
SessionStop ==
    /\ SessionMay
    /\ Becomes([stop(St) EXCEPT !.ops = @ + 1])

\* the adapter reads a chunk the engine wrote
SessionDeliver ==
    \E data \in SessionChunks :
        /\ worker[1] = "running"
        /\ emitted - 2 < MaxSessionLines
        /\ ~MicrotaskPending
        /\ Becomes(echo([St EXCEPT !.emitted = IF queue[1] = <<>> THEN @ ELSE @ + 1], 1, data))

SessionNext ==
    \/ SessionSetPosition
    \/ SessionGetAiMove
    \/ SessionEvaluate
    \/ SessionStop
    \/ Resume
    \/ Timer0
    \/ SessionDeliver

SessionSpec == SessionInit /\ [][SessionNext]_vars

\* ---------------------------------------------- the parsers on their own
\* the range of the scores and of the evaluations (in hundredths) given to them
MaxScore == 12
MaxCents == 30

s_infoDepth5Score == <<"i", "n", "f", "o", " ", "d", "e", "p", "t", "h", " ", "5", " ", "s", "c", "o", "r", "e", " ">>
s_nodesPv == <<" ", "n", "o", "d", "e", "s", " ", "9", " ", "p", "v", " ", "e", "2", "e", "4">>
s_whiteSide == <<" ", "(", "w", "h", "i", "t", "e", " ", "s", "i", "d", "e", ")">>
s_classicalLine == <<"C", "l", "a", "s", "s", "i", "c", "a", "l", " ", "e", "v", "a", "l", "u", "a", "t", "i", "o", "n", ":", " ", "0", ".", "1", "0", " ", "(", "w", "h", "i", "t", "e", " ", "s", "i", "d", "e", ")", "\n">>

\* an evaluation of c hundredths of a pawn as the engine prints it: 0.25, -1.07
centsToString(c) ==
    LET a == IF c < 0 THEN 0 - c ELSE c
    IN  (IF c < 0 THEN <<"-">> ELSE <<>>) \o natToString(a \div 100) \o <<".">>
        \o <<DigitChar((a \div 10) % 10), DigitChar(a % 10)>>

\* the info lines of an engine that reports the score n as cp or as mate
InfoInputs ==
    {[kind |-> "info", a |-> k, n |-> n,
      text |-> s_infoDepth5Score \o k \o SP \o toString(n) \o s_nodesPv] :
        k \in {s_cp, s_mate}, n \in (0 - MaxScore)..MaxScore}

\* the responses to eval of an engine whose total evaluation is n hundredths
EvalInputs ==
    {[kind |-> "eval", a |-> pre, n |-> n,
      text |-> pre \o s_TotalEvaluationColon \o SP \o centsToString(n) \o s_whiteSide] :
        pre \in {<<>>, s_classicalLine}, n \in (0 - MaxCents)..MaxCents}

ParseInit ==
    /\ Fresh
    /\ options = 0
    /\ canLoad = TRUE
    /\ bm = NoBm
    /\ input \in InfoInputs \cup EvalInputs
    /\ output = <<>>

\* _parseEngineInfo(line) for an info line
ParseInfo ==
    /\ output = <<>>
    /\ input.kind = "info"
    /\ output' = <<_parseEngineInfo(input.text)>>
    /\ UNCHANGED <<worker, emitted, queue, written, loaded, ready, terminations, sent,
                   deferred, engine, isInitialized, initPromise, promise, timeout,
                   pendingCommands, inits, calls, events, options, canLoad, ops,
                   oneShot, currentPosition, bm, input>>

\* the callback of evaluate() for a response
ParseEval ==
    /\ output = <<>>
    /\ input.kind = "eval"
    /\ output' = <<evalCallback(input.text)>>
    /\ UNCHANGED <<worker, emitted, queue, written, loaded, ready, terminations, sent,
                   deferred, engine, isInitialized, initPromise, promise, timeout,
                   pendingCommands, inits, calls, events, options, canLoad, ops,
                   oneShot, currentPosition, bm, input>>

ParseNext ==
    \/ ParseInfo
    \/ ParseEval

ParseSpec == ParseInit /\ [][ParseNext]_vars

\* ------------------------------------------- getBestMove(fen, options)
\* the depths asked for and the lines its engine prints
MaxDepth == 3
MaxBmLines == 3
\* the defaults of timeLimit and skillLevel
DefaultTimeLimit == 1000
DefaultSkillLevel == 20

s_setSkillLevel == <<"s", "e", "t", "o", "p", "t", "i", "o", "n", " ", "n", "a", "m", "e", " ", "S", "k", "i", "l", "l", " ", "L", "e", "v", "e", "l", " ", "v", "a", "l", "u", "e", " ">>
s_positionFen == <<"p", "o", "s", "i", "t", "i", "o", "n", " ", "f", "e", "n", " ">>
s_goDepth == <<"g", "o", " ", "d", "e", "p", "t", "h", " ">>
s_movetime == <<" ", "m", "o", "v", "e", "t", "i", "m", "e", " ">>

\* reject(...) and resolve(...) of the promise of getBestMove: the first settles it
bmSettle(b, how) == [b EXCEPT !.promise = IF @ = "pending" THEN how ELSE @]

\* clearTimeout(timeout)
bmClearTimeout(b) == [b EXCEPT !.timer = IF @ = "armed" THEN "cleared" ELSE @]

\* if (engine && engine.terminate) engine.terminate()
bmTerminate(b) ==
    IF b.engine = "undefined" THEN b
    ELSE [b EXCEPT !.engine = "terminated", !.terminations = @ + 1]

\* `let evaluation = null` of getBestMoveWithEvaluation
NoEvaluation == [k |-> "null", v |-> 0]

\* the state right after getBestMove(fen, {depth}) returned its promise: the
\* timer is armed and the import of the engine is under way; evaluation and
\* searchDepth are the variables getBestMoveWithEvaluation has besides
bmCalled(fen, depth) ==
    [pc |-> "called", fen |-> fen, depth |-> depth, timeLimit |-> DefaultTimeLimit,
     skillLevel |-> DefaultSkillLevel, import |-> "pending",
     engine |-> "undefined", timer |-> "armed", promise |-> "pending",
     gotUCI |-> FALSE, bestMove |-> UNDEF, posted |-> <<>>, lines |-> 0,
     terminations |-> 0, evaluation |-> NoEvaluation, searchDepth |-> 0]

\* the callback of setTimeout(..., timeLimit + 5000)
bmTimeout(b) == bmSettle(bmTerminate([b EXCEPT !.timer = "fired"]), "timeout")

\* import('stockfish').then(...): the engine is created and `uci` posted
bmImported(b) ==
    [b EXCEPT !.import = "resolved", !.engine = "running", !.posted = Append(@, s_uci)]

\* .catch(error => ...): clearTimeout and the load failure
bmImportFailed(b) == bmSettle(bmClearTimeout([b EXCEPT !.import = "failed"]), "loaderror")

\* engine.onmessage(line)
bmOnmessage(b, line) ==
    IF ~b.gotUCI /\ line = s_uciok
    THEN [b EXCEPT !.gotUCI = TRUE,
                   !.posted = @ \o <<s_setSkillLevel \o toString(b.skillLevel),
                                     s_positionFen \o b.fen,
                                     s_goDepth \o toString(b.depth) \o s_movetime
                                         \o toString(b.timeLimit)>>]
    ELSE IF substr(line, 0, 8) = s_bestmove
    THEN LET m  == execMoveRegex(line)
             b1 == IF m.ok /\ m.move # s_none THEN [b EXCEPT !.bestMove = m.move] ELSE b
             b2 == bmTerminate(bmClearTimeout(b1))
         IN  IF b2.bestMove # UNDEF THEN bmSettle(b2, "resolved")
             ELSE bmSettle(b2, "nomove")
    ELSE b

BmBecomes(b) ==
    /\ bm' = b
    /\ UNCHANGED <<worker, emitted, queue, written, loaded, ready, terminations, sent,
                   deferred, engine, isInitialized, initPromise, promise, timeout,
                   pendingCommands, inits, calls, events, options, canLoad, ops,
                   oneShot, currentPosition, input, output>>

BmInit ==
    /\ Fresh
    /\ options = 0
    /\ canLoad = TRUE
    /\ bm \in {bmCalled(fen, depth) : fen \in Fens, depth \in 1..MaxDepth}
    /\ input = <<>>
    /\ output = <<>>

\* the timer of the call fires
BmTimeout == bm.timer = "armed" /\ BmBecomes(bmTimeout(bm))

\* the dynamic import resolves
BmImported == bm.import = "pending" /\ BmBecomes(bmImported(bm))

\* the dynamic import rejects
BmImportFailed == bm.import = "pending" /\ BmBecomes(bmImportFailed(bm))

BmChunks == {s_uciok, s_readyok, l_info, l_bestmove, l_bestmoveNone}

\* the engine, running, prints a line
BmDeliver ==
    /\ bm.engine = "running"
    /\ bm.lines < MaxBmLines
    /\ \E line \in BmChunks : BmBecomes(bmOnmessage([bm EXCEPT !.lines = @ + 1], line))

BmNext ==
    \/ BmTimeout
    \/ BmImported
    \/ BmImportFailed
    \/ BmDeliver

BestMoveSpec == BmInit /\ [][BmNext]_vars

\* ------------------------------------ the router and the lines it is given
\* commands a program sends and chunks an engine writes, to tell apart every
\* branch of determineQueueNum and of the chain of tests in worker.onmessage
MaxDispatchSends == 2
MaxDispatchChunks == 2

s_perftDepth == <<"p", "e", "r", "f", "t", " ", "3">>
l_option == <<"o", "p", "t", "i", "o", "n", " ", "n", "a", "m", "e", " ", "H", "a", "s", "h", " ", "t", "y", "p", "e", " ", "s", "p", "i", "n", "\n">>
l_legalMoves == <<"L", "e", "g", "a", "l", " ", "u", "c", "i", " ", "m", "o", "v", "e", "s", ":", " ", "e", "2", "e", "4", "\n">>
l_pawnKey == <<"p", "a", "w", "n", " ", "k", "e", "y", ":", " ", "3", "7", "\n">>
l_nodesSecond == <<"N", "o", "d", "e", "s", "/", "s", "e", "c", "o", "n", "d", ":", " ", "9", "\n">>
l_totalEvaluation == <<"T", "o", "t", "a", "l", " ", "E", "v", "a", "l", "u", "a", "t", "i", "o", "n", ":", " ", "0", ".", "2", "5", " ", "(", "w", "h", "i", "t", "e", " ", "s", "i", "d", "e", ")", "\n">>
l_bestmoveHead == <<"b", "e", "s", "t", "m", "o", "v", "e", " ", "e", "2">>
l_bestmoveTail == <<"e", "4", "\n">>
l_fen == <<"F", "e", "n", ":", " ", "8", "/", "8", " ", "w", "\n">>

DispatchCmds == {s_uci, s_isready, s_go, s_d, s_eval, s_bench, s_perftDepth}

\* whole lines as the engine writes them, each with its newline, two lines in
\* one chunk, and one line in two chunks
DispatchChunks ==
    {s_uciok \o NL, l_option, s_readyok \o NL, l_info \o NL, l_bestmove \o NL,
     s_KeyIs \o NL, l_legalMoves, l_pawnKey, l_nodesSecond, s_UnknownCommand \o NL,
     l_totalEvaluation, l_fen, l_uciokReadyok, l_bestmoveHead, l_bestmoveTail}

\* the strings echo and worker.onmessage hand on as lines for the chunk data
linesGiven(data) ==
    LET str == IF sliceLast(data, 1) = NL THEN sliceEnd(data, 1) ELSE data
    IN  IF indexOf(str, "\n") > -1
        THEN SelectSeq(split(str), LAMBDA singleLine : trim(singleLine) # <<>>)
        ELSE <<str>>

DispatchInit ==
    /\ RouterInit

\* the program calls engine.send(cmd, cb)
DispatchSend ==
    \E cmd \in DispatchCmds :
        /\ Len(sent) < MaxDispatchSends
        /\ Moves(send(St, 1, cmd, Cb("raw", 0)))
        /\ UNCHANGED <<input, output>>

\* the adapter reads the chunk data; input keeps the chunks read so far and
\* output the lines handed on
DispatchDeliver ==
    \E data \in DispatchChunks :
        /\ Len(input) < MaxDispatchChunks
        /\ Moves(echo([St EXCEPT !.emitted = IF queue[1] = <<>> THEN @ ELSE @ + 1], 1, data))
        /\ input' = Append(input, data)
        /\ output' = output \o linesGiven(data)

DispatchNext ==
    \/ DispatchSend
    \/ DispatchDeliver

DispatchSpec == DispatchInit /\ [][DispatchNext]_vars

\* ------------------------------------- a facade constructed with options
\* init() and quit() on a facade whose options ask for up to MaxConfigOpts
\* setoption commands (threads, hashSize, one custom option)
MaxConfigOpts == 3
MaxConfigCalls == 3
MaxConfigLines == 4

ConfigInit ==
    /\ Fresh
    /\ options \in 0..MaxConfigOpts
    /\ canLoad = TRUE
    /\ bm = NoBm
    /\ input = <<>>
    /\ output = <<>>

\* the user calls engine.init()
ConfigUserInit ==
    /\ ops < MaxConfigCalls
    /\ CanInit
    /\ Becomes([awaitInit(St, "init", FALSE) EXCEPT !.ops = @ + 1])

\* the user calls engine.quit()
ConfigUserQuit ==
    /\ ops < MaxConfigCalls
    /\ Becomes([quit(St) EXCEPT !.ops = @ + 1])

\* what the engine process may write in one chunk during the handshake
ConfigChunks == {s_uciok, s_readyok, l_uciokReadyok}

\* the adapter reads a chunk an engine process wrote
ConfigDeliver ==
    \E g \in Gens, data \in ConfigChunks :
        /\ worker[g] \in {"running", "terminated"}
        /\ emitted < MaxConfigLines
        /\ ~MicrotaskPending
        /\ Becomes(echo([St EXCEPT !.emitted = IF queue[g] = <<>> THEN @ ELSE @ + 1], g, data))

ConfigNext ==
    \/ ConfigUserInit
    \/ ConfigUserQuit
    \/ Resume
    \/ InitTimeout
    \/ Timer0
    \/ ConfigDeliver

ConfigSpec == ConfigInit /\ [][ConfigNext]_vars

\* ------------------------------------------------- the cache of best moves
\* getCachedBestMove called for a few positions and options, the searches of
\* the misses outstanding together; input holds the calls, output the
\* moveCache in insertion order. MAX_CACHE_SIZE is 1000 in the source.
MAX_CACHE_SIZE == 2
MaxCacheCalls == 4
MaxCacheDepth == 1

s_depthKey == <<"{", "\"", "d", "e", "p", "t", "h", "\"", ":">>
m_e2e4 == <<"e", "2", "e", "4">>
m_d2d4 == <<"d", "2", "d", "4">>

\* the positions of the calls
CacheFens == {s_startFen, s_fenKings}

\* the options of a call: {} or {depth: n}
CacheOptions == {[depth |-> Undefined]} \cup {[depth |-> Num(n)] : n \in 1..MaxCacheDepth}

\* the moves a search may resolve with
CacheMoves == {m_e2e4, m_d2d4}

\* JSON.stringify(options)
stringify(opts) ==
    IF opts.depth = Undefined THEN <<"{", "}">>
    ELSE s_depthKey \o natToString(opts.depth.v) \o <<"}">>

\* `${fen}-${JSON.stringify(options)}`
cacheKey(fen, opts) == fen \o <<"-">> \o stringify(opts)

\* Map.prototype.has, get, set (a new key goes last, a key that is there
\* keeps its place), and the delete of the first key
mapHas(m, k) == \E i \in 1..Len(m) : m[i].key = k
mapGet(m, k) == m[CHOOSE i \in 1..Len(m) : m[i].key = k].value
mapSet(m, k, v) ==
    IF mapHas(m, k)
    THEN SubSeq([i \in 1..Len(m) |-> IF m[i].key = k THEN [key |-> k, value |-> v] ELSE m[i]],
                1, Len(m))
    ELSE Append(m, [key |-> k, value |-> v])
mapDeleteFirst(m) == Tail(m)

\* the callback of getBestMove(...).then without the size management
cacheStore_unbounded(m, k, move) == mapSet(m, k, move)

\* the callback of getBestMove(...).then: the moveCache after it
cacheStore(m, k, move) ==
    mapSet(IF Len(m) >= MAX_CACHE_SIZE THEN mapDeleteFirst(m) ELSE m, k, move)

CacheBecomes(in, out) ==
    /\ input' = in
    /\ output' = out
    /\ UNCHANGED <<worker, emitted, queue, written, loaded, ready, terminations, sent,
                   deferred, engine, isInitialized, initPromise, promise, timeout,
                   pendingCommands, inits, calls, events, options, canLoad, ops,
                   oneShot, currentPosition, bm>>

CacheInit ==
    /\ Fresh
    /\ options = 0
    /\ canLoad = TRUE
    /\ bm = NoBm
    /\ input = <<>>
    /\ output = <<>>

\* getCachedBestMove(fen, options) is called: a hit returns a resolved
\* promise, a miss starts getBestMove
CacheCall ==
    \E fen \in CacheFens, opts \in CacheOptions :
        /\ Len(input) < MaxCacheCalls
        /\ LET k == cacheKey(fen, opts)
           IN  CacheBecomes(
                   Append(input,
                          IF mapHas(output, k)
                          THEN [key |-> k, st |-> "resolved", hit |-> TRUE,
                                value |-> mapGet(output, k)]
                          ELSE [key |-> k, st |-> "pending", hit |-> FALSE, value |-> UNDEF]),
                   output)

\* the getBestMove of a miss resolves with a move
CacheResolve ==
    \E i \in 1..Len(input), move \in CacheMoves :
        /\ input[i].st = "pending"
        /\ CacheBecomes([input EXCEPT ![i].st = "resolved", ![i].value = move],
                        cacheStore(output, input[i].key, move))

\* the getBestMove of a miss rejects
CacheReject ==
    \E i \in 1..Len(input) :
        /\ input[i].st = "pending"
        /\ CacheBecomes([input EXCEPT ![i].st = "rejected"], output)

CacheNext ==
    \/ CacheCall
    \/ CacheResolve
    \/ CacheReject

CacheSpec == CacheInit /\ [][CacheNext]_vars

\* ------------------------------------------------------ the server actions
\* getChessBestMove, getChessAnalysis and validateMove, each called once with
\* a position and options; input is the call, output the value it returned,
\* bm the getBestMove or getBestMoveWithEvaluation it started
DefaultDepth == 15

s_fenBadRank == <<"8", "/", "8", "/", "8", "/", "8", "/", "8", "/", "8", "/", "8", "/", "K", "5", "k", " ", "w", " ", "-", " ", "-", " ", "0", " ", "1">>
s_fenSevenRanks == <<"8", "/", "8", "/", "8", "/", "8", "/", "8", "/", "8", "/", "K", "6", "k", " ", "w", " ", "-", " ", "-", " ", "0", " ", "1">>
s_fenBadPiece == <<"8", "/", "8", "/", "8", "/", "8", "/", "8", "/", "8", "/", "8", "/", "K", "6", "x", " ", "w", " ", "-", " ", "-", " ", "0", " ", "1">>
s_fenBadSide == <<"8", "/", "8", "/", "8", "/", "8", "/", "8", "/", "8", "/", "8", "/", "K", "6", "k", " ", "x", " ", "-", " ", "-", " ", "0", " ", "1">>
s_fenBadCastling == <<"8", "/", "8", "/", "8", "/", "8", "/", "8", "/", "8", "/", "8", "/", "K", "6", "k", " ", "w", " ", "K", "Q", "x", "q", " ", "-", " ", "0", " ", "1">>
s_fenPadded == <<" ", "8", "/", "8", "/", "8", "/", "8", "/", "8", "/", "8", "/", "8", "/", "K", "6", "k", " ", "b", " ", "K", "q", " ", "-", " ", "0", " ", "1", " ">>
s_fenNine == <<"8", "/", "8", "/", "8", "/", "8", "/", "8", "/", "8", "/", "8", "/", "K", "6", "k", "9", " ", "w", " ", "-", " ", "-", " ", "0", " ", "1">>

\* Math.max of two integers
Max(a, b) == IF a > b THEN a ELSE b

\* String.prototype.split(ch)
RECURSIVE splitAt(_, _)
splitAt(s, ch) ==
    LET i == indexOf(s, ch)
    IN  IF i = -1 THEN <<s>>
        ELSE <<SubSeq(s, 1, i)>> \o splitAt(SubSeq(s, i + 2, Len(s)), ch)

\* the squares a rank of the piece placement stands for, -1 with a character
\* that is neither a digit 1..8 nor a piece
RECURSIVE rankSquares(_)
rankSquares(rank) ==
    IF rank = <<>> THEN 0
    ELSE LET char == rank[1]
             rest == rankSquares(Tail(rank))
         IN  IF rest = -1 THEN -1
             ELSE IF char \in {"1", "2", "3", "4", "5", "6", "7", "8"}
             THEN DigitValue(char) + rest
             ELSE IF char \in {"p", "n", "b", "r", "q", "k", "P", "N", "B", "R", "Q", "K"}
             THEN 1 + rest
             ELSE -1

\* isValidFEN: UNDEF stands for a value that is not a string
isValidFEN(fen) ==
    IF fen = UNDEF \/ fen = <<>> THEN FALSE
    ELSE LET parts == splitAt(trim(fen), " ")
         IN  /\ Len(parts) = 6
             /\ LET ranks == splitAt(parts[1], "/")
                IN  /\ Len(ranks) = 8
                    /\ \A r \in 1..Len(ranks) : rankSquares(ranks[r]) = 8
             /\ parts[2] \in {<<"w">>, <<"b">>}
             /\ \/ parts[3] = <<"-">>
                \/ /\ Len(parts[3]) > 0
                   /\ \A c \in 1..Len(parts[3]) : parts[3][c] \in {"K", "Q", "k", "q"}

\* a || d for a number or undefined: undefined, NaN and 0 give d
orElse(a, d) == IF a.k = "num" /\ a.v # 0 THEN a.v ELSE d

\* Math.min(Math.max(v, lo), hi)
clamp(v, lo, hi) == Min(Max(v, lo), hi)

\* getChessBestMove without its validation of the position
earlyReturn_unchecked(call) ==
    IF call.action = "validateMove" /\ call.move = UNDEF
    THEN <<[success |-> FALSE, error |-> "Invalid move provided"]>>
    ELSE <<>>

\* the options getChessBestMove gives to getBestMove
bestMoveOptions(opts) ==
    [depth |-> Num(clamp(orElse(opts.depth, 15), 1, 20)),
     timeLimit |-> Num(clamp(orElse(opts.timeLimit, 1000), 100, 30000)),
     skillLevel |-> Num(clamp(orElse(opts.skillLevel, 20), 0, 20))]

\* the options getChessAnalysis gives to getBestMoveWithEvaluation
analysisOptions(opts) ==
    [depth |-> Num(clamp(orElse(opts.depth, 18), 1, 20)),
     timeLimit |-> Num(clamp(orElse(opts.timeLimit, 2000), 100, 30000)),
     skillLevel |-> Num(clamp(orElse(opts.skillLevel, 20), 0, 20))]

\* the options validateMove gives to getBestMoveWithEvaluation
validateOptions == [depth |-> Num(12), timeLimit |-> Num(1000), skillLevel |-> Undefined]

\* getBestMove(fen, options) and getBestMoveWithEvaluation(fen, options) up to
\* the promise they return: the defaults of the destructuring
getBestMove(fen, opts) ==
    [bmCalled(fen, IF opts.depth = Undefined THEN DefaultDepth ELSE opts.depth.v) EXCEPT
        !.timeLimit = IF opts.timeLimit = Undefined THEN DefaultTimeLimit ELSE opts.timeLimit.v,
        !.skillLevel = IF opts.skillLevel = Undefined THEN DefaultSkillLevel
                       ELSE opts.skillLevel.v]

\* the 0-based places of line where word stands, followed by a blank
WordPlaces(line, word) ==
    {i \in 0..Len(line) :
        /\ substr(line, i, Len(word)) = word
        /\ i + Len(word) + 1 <= Len(line)
        /\ IsSpace(line[i + Len(word) + 1])}

\* /depth\s+(\d+)/: the places where it matches
depthPlaces(line) ==
    {i \in WordPlaces(line, s_depth) :
        LET b == skipSpaces(line, i + Len(s_depth) + 1)
        IN  b <= Len(line) /\ IsDigit(line[b])}

\* /score\s+(cp|mate)\s+(-?\d+)/ tried at the 0-based place i
scoreRegexAt(line, i) ==
    LET a    == skipSpaces(line, i + Len(s_score) + 1)
        unit == IF substr(line, a - 1, 2) = s_cp THEN s_cp
                ELSE IF substr(line, a - 1, 4) = s_mate THEN s_mate ELSE <<>>
        b    == a + Len(unit)
        c    == skipSpaces(line, b)
        neg  == c <= Len(line) /\ line[c] = "-"
        d    == IF neg THEN c + 1 ELSE c
    IN  [ok |-> /\ i \in WordPlaces(line, s_score)
                /\ unit # <<>>
                /\ c > b
                /\ d <= Len(line) /\ IsDigit(line[d]),
         unit |-> unit,
         neg |-> neg,
         value |-> digitsValue(SubSeq(line, d, Len(line)), 0)]

\* /pv\s+(\S+)/: the places where it matches
pvPlaces(line) ==
    {i \in WordPlaces(line, s_pv) : skipSpaces(line, i + Len(s_pv) + 1) <= Len(line)}

\* engine.onmessage(line) of getBestMoveWithEvaluation
bmeOnmessage(b, line) ==
    IF ~b.gotUCI /\ line = s_uciok
    THEN [b EXCEPT !.gotUCI = TRUE,
                   !.posted = @ \o <<s_setSkillLevel \o toString(b.skillLevel),
                                     s_positionFen \o b.fen,
                                     s_goDepth \o toString(b.depth) \o s_movetime
                                         \o toString(b.timeLimit)>>]
    ELSE IF substr(line, 0, 4) = s_info /\ Contains(line, s_depth)
    THEN LET dp == depthPlaces(line)
             sp == {i \in 0..Len(line) : scoreRegexAt(line, i).ok}
             pp == pvPlaces(line)
             b1 == IF dp = {} THEN b
                   ELSE LET i == CHOOSE i \in dp : \A j \in dp : i <= j
                        IN  [b EXCEPT !.searchDepth =
                                digitsValue(SubSeq(line, skipSpaces(line, i + Len(s_depth) + 1),
                                                   Len(line)), 0)]
         IN  IF sp = {} \/ pp = {} THEN b1
             ELSE LET sc == scoreRegexAt(line, CHOOSE i \in sp : \A j \in sp : i <= j)
                      pi == CHOOSE i \in pp : \A j \in pp : i <= j
                      p1 == skipSpaces(line, pi + Len(s_pv) + 1)
                  IN  [b1 EXCEPT
                          !.bestMove = SubSeq(line, p1, skipToken(line, p1) - 1),
                          !.evaluation =
                              IF sc.unit = s_cp
                              THEN [k |-> "cents", v |-> IF sc.neg THEN 0 - sc.value ELSE sc.value]
                              ELSE [k |-> "Infinity", v |-> IF sc.neg THEN -1 ELSE 1]]
    ELSE IF substr(line, 0, 8) = s_bestmove
    THEN LET m  == execMoveRegex(line)
             b1 == IF m.ok /\ m.move # s_none THEN [b EXCEPT !.bestMove = m.move] ELSE b
             b2 == bmTerminate(bmClearTimeout(b1))
         IN  IF b2.bestMove # UNDEF THEN bmSettle(b2, "resolved")
             ELSE bmSettle(b2, "nomove")
    ELSE b

\* what the engine prints during a search
l_infoMate == <<"i", "n", "f", "o", " ", "d", "e", "p", "t", "h", " ", "3", " ", "s", "c", "o", "r", "e", " ", "m", "a", "t", "e", " ", "-", "2", " ", "p", "v", " ", "a", "7", "a", "6">>

ServerChunks == {s_uciok, l_info, l_infoScore, l_infoMate, l_bestmove, l_bestmoveNone}

\* the positions given to the server actions
ServerFens == {s_startFen, s_fenPadded, s_fenFiveFields, s_fenBadRank, s_fenSevenRanks,
               s_fenBadPiece, s_fenNine, s_fenBadSide, s_fenBadCastling, <<>>, UNDEF}

\* the options given to them: each field absent or a number
ServerOptions ==
    [depth : {Undefined, Num(0), Num(12), Num(25)},
     timeLimit : {Undefined, Num(0), Num(50), Num(40000)},
     skillLevel : {Undefined, Num(0), Num(10), Num(-1)}]

NoOptions == [depth |-> Undefined, timeLimit |-> Undefined, skillLevel |-> Undefined]

ServerCalls ==
    {[action |-> action, fen |-> fen, options |-> opts, move |-> UNDEF] :
        action \in {"getChessBestMove", "getChessAnalysis"},
        fen \in ServerFens, opts \in ServerOptions}
    \cup {[action |-> "validateMove", fen |-> fen, options |-> NoOptions, move |-> move] :
             fen \in ServerFens, move \in {UNDEF, m_e2e4}}

\* the value of the early return of a server action, <<>> when it goes on
earlyReturn(call) ==
    IF ~isValidFEN(call.fen)
    THEN <<[success |-> FALSE, error |-> "Invalid FEN string provided"]>>
    ELSE IF call.action = "validateMove" /\ call.move = UNDEF
    THEN <<[success |-> FALSE, error |-> "Invalid move provided"]>>
    ELSE <<>>

\* the search a server action starts
searchOf(call) ==
    getBestMove(call.fen,
                CASE call.action = "getChessBestMove" -> bestMoveOptions(call.options)
                  [] call.action = "getChessAnalysis" -> analysisOptions(call.options)
                  [] call.action = "validateMove" -> validateOptions)

\* the value a server action returns once its search has settled
lateReturn(call, b) ==
    IF b.promise # "resolved" THEN [success |-> FALSE, error |-> b.promise]
    ELSE IF call.action = "getChessBestMove" THEN [success |-> TRUE, move |-> b.bestMove]
    ELSE [success |-> TRUE, move |-> b.bestMove,
          evaluation |-> IF b.evaluation = NoEvaluation THEN [k |-> "cents", v |-> 0]
                         ELSE b.evaluation,
          depth |-> b.searchDepth, isBestMove |-> b.bestMove = call.move]

ServerInit ==
    /\ Fresh
    /\ options = 0
    /\ canLoad = TRUE
    /\ bm = NoBm
    /\ input \in ServerCalls
    /\ output = <<>>

\* the server action runs up to its first await, or to its early return
ServerCall ==
    /\ bm = NoBm
    /\ output = <<>>
    /\ output' = earlyReturn(input)
    /\ bm' = IF earlyReturn(input) = <<>> THEN searchOf(input) ELSE NoBm
    /\ UNCHANGED <<worker, emitted, queue, written, loaded, ready, terminations, sent,
                   deferred, engine, isInitialized, initPromise, promise, timeout,
                   pendingCommands, inits, calls, events, options, canLoad, ops,
                   oneShot, currentPosition, input>>

\* the server action goes on after its await and returns
ServerReturn ==
    /\ bm.pc = "called"
    /\ bm.promise # "pending"
    /\ output = <<>>
    /\ output' = <<lateReturn(input, bm)>>
    /\ UNCHANGED <<worker, emitted, queue, written, loaded, ready, terminations, sent,
                   deferred, engine, isInitialized, initPromise, promise, timeout,
                   pendingCommands, inits, calls, events, options, canLoad, ops,
                   oneShot, currentPosition, bm, input>>

\* a continuation of the server action waits to run
ServerMicrotask == bm.pc = "called" /\ bm.promise # "pending" /\ output = <<>>

ServerTimeout ==
    bm.pc = "called" /\ ~ServerMicrotask /\ bm.timer = "armed" /\ BmBecomes(bmTimeout(bm))

ServerImported ==
    bm.pc = "called" /\ ~ServerMicrotask /\ bm.import = "pending" /\ BmBecomes(bmImported(bm))

ServerImportFailed ==
    bm.pc = "called" /\ ~ServerMicrotask /\ bm.import = "pending"
    /\ BmBecomes(bmImportFailed(bm))

\* the engine, running, prints a line
ServerDeliver ==
    /\ bm.pc = "called"
    /\ ~ServerMicrotask
    /\ bm.engine = "running"
    /\ bm.lines < MaxBmLines
    /\ \E line \in ServerChunks :
          BmBecomes(IF input.action = "getChessBestMove"
                    THEN bmOnmessage([bm EXCEPT !.lines = @ + 1], line)
                    ELSE bmeOnmessage([bm EXCEPT !.lines = @ + 1], line))

ServerNext ==
    \/ ServerCall
    \/ ServerReturn
    \/ ServerTimeout
    \/ ServerImported
    \/ ServerImportFailed
    \/ ServerDeliver

ServerSpec == ServerInit /\ [][ServerNext]_vars

\* ============================================================== properties
\* where cmd was written to an adapter: the engine and the place in its input
WrittenAt(cmd) ==
    UNION {{<<g, i>> : i \in {j \in 1..Len(written[g]) : written[g][j] = cmd \o NL}} :
           g \in Gens}

InQueue(id) == \E g \in Gens : \E i \in 1..Len(queue[g]) : queue[g][i] = id

\* no timer is armed and no continuation is waiting to run
Quiet ==
    /\ ~MicrotaskPending
    /\ deferred = <<>>
    /\ \A p \in Gens : timeout[p] # "armed"

\* C1: a getAiMove() whose `go` was outstanding when quit() was called is
\* rejected: once the output of the engine that quit() killed has ended, the
\* call is not still pending (and has not resolved).
C1_QuitRejectsOutstandingSearch ==
    \A c \in 1..Len(calls) :
        (calls[c].quitWhileSearching # 0 /\ worker[calls[c].quitWhileSearching] = "closed")
            => calls[c].st = "rejected"

\* the caller that awaits the command sent[id] has been rejected
AwaiterRejected(id) ==
    LET cb == sent[id].cb
    IN  CASE cb.k \in {"go", "eval"} -> calls[cb.a].st = "rejected"
          [] cb.k \in {"uci", "isready"} ->
                 /\ promise[cb.a] \in {"timeout", "error"}
                 /\ \A c \in 1..Len(calls) : calls[c].p = cb.a => calls[c].st = "rejected"
          [] OTHER -> TRUE

\* C2: when the engine process has ended on its own with commands pending in
\* the router queue, every caller awaiting one of them is rejected: once no
\* timer or continuation is left to run, none of them is still pending.
C2_ExitRejectsAwaitingCallers ==
    \A g \in Gens :
        (worker[g] = "exited" /\ Quiet)
            => \A i \in 1..Len(queue[g]) : AwaiterRejected(queue[g][i])

\* C3: without a quit(), however many init() calls are made (directly or by the
\* other methods), one engine is loaded, `uci` is written once and `isready` at
\* most once, and every init() call that awaits the initialization settles as
\* that one initialization does.
C3_InitOnce ==
    events.quit = 0 =>
        /\ inits <= 1
        /\ Cardinality({g \in Gens : worker[g] # "none"}) <= 1
        /\ Cardinality(WrittenAt(s_uci)) = (IF inits = 1 /\ canLoad THEN 1 ELSE 0)
        /\ Cardinality(WrittenAt(s_isready)) <= 1
        /\ \A c \in 1..Len(calls) :
              (calls[c].op = "init" /\ calls[c].p # 0)
                  => /\ calls[c].p = 1
                     /\ calls[c].st = "resolved" => promise[1] = "resolved"
                     /\ calls[c].st = "rejected" => promise[1] \in {"timeout", "error"}

C3_Witness ==
    /\ events.quit = 0
    /\ Cardinality({c \in 1..Len(calls) :
                       calls[c].op = "init" /\ calls[c].p = 1 /\ calls[c].st = "resolved"}) >= 2
    /\ Cardinality(WrittenAt(s_isready)) = 1

\* C4: the timer of an initialization fires only while the handshake is not
\* complete, and then init() rejects with the timeout error; when the handshake
\* completes first the timer is cancelled and init() resolves; never both.
C4_TimeoutOrResolve ==
    \A p \in Gens :
        /\ timeout[p] = "armed" => promise[p] = "pending"
        /\ timeout[p] = "fired" => promise[p] = "timeout"
        /\ promise[p] = "timeout" => timeout[p] = "fired"
        /\ promise[p] = "resolved" => timeout[p] = "cleared"
        /\ \A c \in 1..Len(calls) :
              (calls[c].op = "init" /\ calls[c].p = p)
                  => /\ calls[c].st = "resolved" => promise[p] = "resolved"
                     /\ calls[c].st = "rejected" => calls[c].err = promise[p]

C4_Witness ==
    \E c \in 1..Len(calls) :
        /\ calls[c].op = "init"
        /\ calls[c].st = "rejected"
        /\ calls[c].err = "timeout"
        /\ timeout[calls[c].p] = "fired"

\* C5: once an init() has rejected with the timeout error, isReady() stays
\* false and no 'ready' event is emitted afterwards.
C5_TimeoutIsFatal ==
    [][(\E p \in Gens : promise[p] = "timeout")
          => (~isInitialized' /\ events'.ready = events.ready)]_vars

\* C6: when the one-shot getAiMove(fen, moves, searchOptions) has settled, by
\* resolving or by rejecting, quit() has been called on its facade and the
\* engine it loaded has been terminated.
C6_OneShotAlwaysQuits ==
    oneShot.result # "none" =>
        /\ events.quit = 1
        /\ engine = 0
        /\ \A g \in Gens :
              worker[g] # "none" => terminations[g] = 1 /\ worker[g] # "running"

C6_Witness ==
    /\ oneShot.result = "rejected"
    /\ calls[oneShot.c].op = "getAiMove"
    /\ terminations[1] = 1

\* C7: an operation invoked after quit() fails fast: it does not resolve, and
\* it does not wait on an engine.
C7_FailFastAfterQuit ==
    \A c \in 1..Len(calls) :
        (calls[c].afterQuit /\ calls[c].op \in {"setPosition", "getAiMove", "evaluate", "stop"})
            => /\ calls[c].st # "resolved"
               /\ calls[c].st # "sent"
               /\ ~(calls[c].st = "await" /\ calls[c].p # 0 /\ promise[calls[c].p] = "pending")

\* a step that is a call of quit(): by the user, or by the finally block of the
\* one-shot getAiMove
IsQuit ==
    \/ ops' = ops + 1 /\ Len(calls') = Len(calls)
    \/ oneShot.pc # "done" /\ oneShot'.pc = "done"

\* C8: quit() terminates the engine the facade holds, once, leaves isReady()
\* false and emits one 'quit' event; no engine is ever terminated twice, and a
\* quit() on a facade that holds no engine terminates nothing.
C8_QuitTerminatesOnce ==
    [][IsQuit =>
          /\ ~isInitialized'
          /\ events'.quit = events.quit + 1
          /\ \A g \in Gens :
                /\ terminations'[g] = terminations[g] + (IF engine = g THEN 1 ELSE 0)
                /\ terminations'[g] <= 1
                /\ engine = g => worker'[g] # "running"]_vars

C8_Witness ==
    /\ events.quit = 2
    /\ events.ready = 1
    /\ terminations[1] = 1
    /\ ~isInitialized

\* C9: the callback of a queued command is invoked at most once, in the step
\* that removes the command from the queue and with the output accumulated by
\* then; once removed, the command is never queued again, gets no further
\* output and no further callback.
C9_CallbackOnceAtRemoval ==
    [][\A id \in 1..Len(sent) :
          sent[id].queued =>
              /\ sent'[id].invoked <= 1
              /\ InQueue(id)' => sent'[id].invoked = 0
              /\ (InQueue(id) /\ ~InQueue(id)') =>
                    /\ sent'[id].invoked = (IF sent[id].cb = NoCb THEN 0 ELSE 1)
                    /\ sent[id].cb # NoCb => sent'[id].result = sent'[id].message
              /\ ~InQueue(id) => (~InQueue(id)' /\ sent'[id] = sent[id])]_vars

C9_Witness ==
    \E id, other \in 1..Len(sent) :
        /\ sent[id].queued /\ ~InQueue(id) /\ sent[id].invoked = 1
        /\ other > id /\ InQueue(other) /\ sent[other].message # <<>>
        /\ emitted >= 3

\* C10: what is written to the adapter is the sequence of send() calls in call
\* order, and the queue holds the pending commands in the order they were
\* sent, each of them written.
C10_OrderOfSends ==
    /\ Len(written[1]) = Len(sent)
    /\ \A i \in 1..Len(sent) : written[1][i] = sent[i].cmd \o NL
    /\ \A i \in 1..Len(queue[1]) :
          /\ queue[1][i] <= Len(written[1])
          /\ sent[queue[1][i]].queued
          /\ \A j \in 1..(i - 1) : queue[1][j] < queue[1][i]

C10_Witness ==
    /\ Len(queue[1]) = 2
    /\ Len(written[1]) = 3
    /\ \E i \in 1..Len(sent) : ~sent[i].queued /\ i < queue[1][2]

\* the place of id among the callbacks scheduled by setTimeout(cb, 0)
Deferred(id) == \E i \in 1..Len(deferred) : deferred[i] = id

\* C11: a command that gets no reply is never queued; the send() that takes it
\* leaves the queue as it is, writes the command once and does not run the
\* callback; the callback, when one is given, is scheduled on a timer and has
\* run exactly once, with no output, as soon as that timer has fired, whatever
\* the engine has or has not written.
C11_FireAndForget ==
    [][\A id \in 1..Len(sent') :
          ~sent'[id].queued =>
              /\ ~InQueue(id)'
              /\ sent'[id].result = <<>>
              /\ sent'[id].message = <<>>
              /\ sent'[id].invoked = (IF sent'[id].cb # NoCb /\ ~Deferred(id)' THEN 1 ELSE 0)
              /\ id > Len(sent) =>
                    /\ queue' = queue
                    /\ written'[1] = Append(written[1], sent'[id].cmd \o NL)
                    /\ sent'[id].invoked = 0]_vars

C11_Witness ==
    \E id, other \in 1..Len(sent) :
        /\ sent[id].cmd = s_positionStartpos
        /\ sent[id].invoked = 1
        /\ other < id /\ InQueue(other)
        /\ emitted = 0

\* C12: a command that completes leaves the queue and its callback gets its
\* accumulated output; a `go` completed by a bestmove line gives its callback
\* that bestmove line alone, with nothing of the info lines before it.
C12_CompletionDeliversOutput ==
    [][\A id \in 1..Len(sent) :
          (InQueue(id) /\ ~InQueue(id)') =>
              /\ sent[id].cb # NoCb =>
                    /\ sent'[id].invoked = 1
                    /\ sent'[id].result = sent'[id].message
              /\ (getFirstWord(sent[id].cmd) = s_go /\ Contains(sent'[id].message, s_bestmove))
                    => sent'[id].message = l_bestmove]_vars

C12_Witness ==
    /\ Len(sent) = 1
    /\ sent[1].cmd = s_go
    /\ sent[1].invoked = 1
    /\ sent[1].result = l_bestmove
    /\ emitted >= 2


Sign(n) == IF n > 0 THEN 1 ELSE IF n < 0 THEN 0 - 1 ELSE 0
Abs(n) == IF n < 0 THEN 0 - n ELSE n

\* C19, as stated: for every integer N, `score mate N` becomes
\* sign(N) * (10000 - |N|), and `score cp V` becomes V.
C19_MateScoreEveryN ==
    (input.kind = "info" /\ output # <<>>) =>
        output[1].score =
            Num(IF input.a = s_mate THEN Sign(input.n) * (10000 - Abs(input.n))
                ELSE input.n)

\* C19, amended: `score mate N` becomes sign(N) * (10000 - |N|) for every N
\* other than 0 and -10000 for N = 0; `score cp V` becomes V.
C19_MateScore ==
    (input.kind = "info" /\ output # <<>>) =>
        output[1].score =
            Num(IF input.a = s_cp THEN input.n
                ELSE IF input.n = 0 THEN 0 - 10000
                ELSE Sign(input.n) * (10000 - Abs(input.n)))

C19_Witness ==
    /\ input.kind = "info"
    /\ input.a = s_mate
    /\ input.n = 0 - 2
    /\ output # <<>>
    /\ output[1].has
    /\ output[1].score = Num(0 - 9998)

\* C20: evaluate() resolves with the number of the `Total evaluation:` field
\* of the response times 100, rounded to an integer, and with the response
\* text as details.
C20_EvaluationTimes100 ==
    (input.kind = "eval" /\ output # <<>>) =>
        /\ output[1].evaluation = input.n
        /\ output[1].details = input.text

C20_Witness ==
    /\ input.kind = "eval"
    /\ input.n = 25
    /\ input.a = s_classicalLine
    /\ output # <<>>
    /\ output[1].evaluation = 25

\* the state SessionInit starts from, as the facade reaches it
SessionReached ==
    /\ sent = <<[g |-> 1, cmd |-> s_uci, cb |-> Cb("uci", 1), queued |-> TRUE,
                 message |-> s_uciok, invoked |-> 1, result |-> s_uciok],
                [g |-> 1, cmd |-> s_isready, cb |-> Cb("isready", 1), queued |-> TRUE,
                 message |-> s_readyok, invoked |-> 1, result |-> s_readyok]>>
    /\ calls = <<Call("init", "resolved", "none", 1, FALSE)>>
    /\ emitted = 2 /\ ops = 1 /\ engine = 1 /\ isInitialized /\ initPromise = 1
    /\ promise[1] = "resolved" /\ timeout[1] = "cleared" /\ events.ready = 1
    /\ worker[1] = "running" /\ loaded[1] /\ ready[1] /\ inits = 1
    /\ written[1] = <<s_uci \o NL, s_isready \o NL>>
    /\ queue[1] = <<>> /\ deferred = <<>> /\ options = 0 /\ canLoad

\* the words of a line, blanks apart
NonEmpty(s) == s # <<>>
Tokens(line) == SelectSeq(splitSpace(line), NonEmpty)

\* the engine.send of the `go` of call c
GoEntry(c) == CHOOSE id \in 1..Len(sent) : sent[id].cb = Cb("go", c)

\* the line that ended the search of call c is a bestmove line
Terminal(c) ==
    /\ \E id \in 1..Len(sent) : sent[id].cb = Cb("go", c)
    /\ sent[GoEntry(c)].invoked = 1
    /\ Len(Tokens(sent[GoEntry(c)].result)) >= 2
    /\ Tokens(sent[GoEntry(c)].result)[1] = s_bestmove

\* [a-h][1-8][a-h][1-8] and an optional promotion letter
IsCoordinateMove(m) ==
    /\ Len(m) \in {4, 5}
    /\ m[1] \in {"a", "b", "c", "d", "e", "f", "g", "h"}
    /\ m[2] \in {"1", "2", "3", "4", "5", "6", "7", "8"}
    /\ m[3] \in {"a", "b", "c", "d", "e", "f", "g", "h"}
    /\ m[4] \in {"1", "2", "3", "4", "5", "6", "7", "8"}
    /\ Len(m) = 5 => m[5] \in {"q", "r", "b", "n"}

\* C13: a getAiMove() that resolves gives a move of the coordinate grammar,
\* the word after `bestmove` in the line that ended the search, and as ponder
\* the word after `ponder` when the line has one.
C13_MoveOfGrammar ==
    \A c \in 1..Len(calls) :
        (calls[c].op = "getAiMove" /\ calls[c].st = "resolved") =>
            LET toks == Tokens(sent[GoEntry(c)].result)
            IN  /\ Terminal(c)
                /\ calls[c].move = toks[2]
                /\ calls[c].ponder = (IF Len(toks) >= 4 /\ toks[3] = s_ponder
                                      THEN toks[4] ELSE UNDEF)
                /\ IsCoordinateMove(calls[c].move)

\* an info line that carries a depth
CarriesDepth(line) ==
    LET toks == splitSpace(line)
    IN  /\ toks[1] = s_info
        /\ \E i \in 2..(Len(toks) - 1) : toks[i] = s_depth /\ parseInt(toks[i + 1]).k = "num"

\* what the last line of w that carries a depth says, null when none does
LastDepthInfo(w) ==
    LET at_ == {i \in 1..Len(w) : CarriesDepth(w[i])}
    IN  IF at_ = {} THEN NoInfo
        ELSE _parseEngineInfo(w[CHOOSE i \in at_ : \A j \in at_ : j <= i])

\* C14: the score, depth, nodes, nps, time and pv of a getAiMove() result are
\* those of the last info line with a depth received between the sending of
\* its `go` and its bestmove, and are absent when there was none; lines
\* received before the `go` was sent are not used.
C14_StatsOfThisSearch ==
    \A c \in 1..Len(calls) :
        (calls[c].op = "getAiMove" /\ calls[c].st = "resolved") =>
            calls[c].stats = LastDepthInfo(calls[c].window)

C14_Witness ==
    \E c, d \in 1..Len(calls) :
        /\ c < d
        /\ calls[c].op = "getAiMove" /\ calls[c].st = "resolved"
        /\ calls[c].stats.has /\ calls[c].stats.score = Num(35)
        /\ calls[d].op = "getAiMove" /\ calls[d].st = "resolved"
        /\ ~calls[d].stats.has

\* C15: a getAiMove() whose search ended with `bestmove (none)` fails with the
\* no-move error and does not resolve with a move.
C15_NoneIsNoMove ==
    \A c \in 1..Len(calls) :
        (calls[c].op = "getAiMove" /\ Terminal(c)
         /\ Tokens(sent[GoEntry(c)].result)[2] = s_none)
            => (calls[c].st = "rejected" /\ calls[c].err = "nomove")

\* the setPosition() calls made so far
SetPositionCalls == {c \in 1..Len(calls) : calls[c].op = "setPosition"}

\* C16, as stated: getFen() is always the fen of the most recent
\* setPosition() call, the start position before any call.
C16_GetFenIsLastCall ==
    currentPosition =
        (IF SetPositionCalls = {} THEN s_startFen
         ELSE calls[CHOOSE c \in SetPositionCalls : \A d \in SetPositionCalls : d <= c].fen)

\* call c goes past its `await this.init()` in this step, its init() not rejected
Proceeds(c) ==
    /\ calls[c].st = "await"
    /\ calls'[c].st # "await"
    /\ ~(calls'[c].st = "rejected" /\ calls'[c].err \in {"timeout", "error"} /\ calls[c].p # 0
         /\ promise[calls[c].p] \in {"timeout", "error"})

\* C16, amended: getFen() is the fen of the setPosition() call that went last
\* past its `await this.init()`, the start position before any did: the step
\* in which a setPosition({fen: X}) goes on after init() makes it X, and no
\* other step (getAiMove, evaluate, stop, a timer, a line of the engine)
\* changes it.
C16_GetFenIsLastProceeded ==
    [][/\ \A c \in SetPositionCalls : Proceeds(c) => currentPosition' = calls[c].fen
       /\ currentPosition' # currentPosition => \E c \in SetPositionCalls : Proceeds(c)]_vars

C16_Witness ==
    \E c, d \in 1..Len(calls) :
        /\ c < d
        /\ calls[c].op = "setPosition" /\ calls[c].st = "resolved"
        /\ calls[c].fen = s_fenKings
        /\ calls[d].op = "getAiMove" /\ calls[d].st = "resolved"
        /\ currentPosition = s_fenKings

\* a FEN has six fields
InvalidFen(fen) == Len(splitSpace(fen)) # 6

\* C17: setPosition() with a FEN that is not well formed is rejected before
\* anything is sent: no command with that FEN is written and the stored
\* position is not that FEN.
C17_InvalidFenRejected ==
    \A c \in SetPositionCalls :
        (InvalidFen(calls[c].fen) /\ calls[c].st # "await") =>
            /\ calls[c].st = "rejected"
            /\ WrittenAt(positionCommand(calls[c].fen)) = {}
            /\ currentPosition # calls[c].fen

\* C18: when the deadline of getBestMove expires before a bestmove line, the
\* call rejects with the search timeout and its engine is terminated: in no
\* interleaving of the timer, the loading and the output of the engine is an
\* engine of a timed-out call running.
C18_TimedOutEngineTerminated ==
    (bm.pc = "called" /\ bm.timer = "fired") =>
        /\ bm.promise = "timeout"
        /\ bm.engine # "running"

\* the command sent[id] has completed: it left the queue and its callback ran
Completed(id) == sent[id].invoked = 1 /\ ~InQueue(id)

\* a setoption of _configureEngine
IsConfigOption(id) == sent[id].cb.k = "onComplete"

\* C21: `isready` is written to an adapter only after the `uci` command sent
\* to it has completed, every setoption of the configuration only after the
\* `isready` sent to it has completed, and an initialization resolves only
\* after all of them, with every setoption acknowledged; unless quit() was
\* called, an init() that has resolved finds isReady() true.
C21_HandshakeOrder ==
    /\ \A r \in 1..Len(sent) :
          sent[r].cmd = s_isready =>
              \E u \in 1..(r - 1) :
                  sent[u].cmd = s_uci /\ sent[u].g = sent[r].g /\ Completed(u)
    /\ \A o \in 1..Len(sent) :
          IsConfigOption(o) =>
              \E r \in 1..(o - 1) :
                  sent[r].cmd = s_isready /\ sent[r].g = sent[o].g /\ Completed(r)
    /\ \A p \in Gens :
          promise[p] = "resolved" =>
              /\ Cardinality({o \in 1..Len(sent) : IsConfigOption(o) /\ sent[o].cb.a = p})
                     = options
              /\ \A o \in 1..Len(sent) :
                    (IsConfigOption(o) /\ sent[o].cb.a = p) => sent[o].invoked = 1
    /\ events.quit = 0 =>
          \A c \in 1..Len(calls) :
              (calls[c].op = "init" /\ calls[c].st = "resolved") => isInitialized

\* C22: once the output accumulated for a pending `eval` command holds the
\* "Total Evaluation" block the engine printed, the router has completed the
\* command: it has left the queue and its callback has been invoked.
C22_EvalCompletes ==
    \A id \in 1..Len(sent) :
        (sent[id].cmd = s_eval /\ Contains(sent[id].message, sliceEnd(l_totalEvaluation, 1)))
            => Completed(id)

\* the lines an engine of DispatchSpec is read to write
DispatchLines ==
    UNION {{linesGiven(data)[i] : i \in 1..Len(linesGiven(data))} : data \in DispatchChunks}

\* the chunk read in this step is the one line `line`
OneLineRead(line) ==
    /\ Len(input') = Len(input) + 1
    /\ linesGiven(input'[Len(input')]) = <<line>>

\* the category of a line, by its first word
LineCategory(line) ==
    LET word == getFirstWord(line)
    IN  CASE word \in {s_uciok, s_option} -> s_uci
          [] word = s_readyok -> s_isready
          [] word \in {s_bestmove, s_info} -> s_go
          [] OTHER -> s_other

\* the pending command sent[id] takes lines of category cat
TakesCategory(id, cat) ==
    \/ getFirstWord(sent[id].cmd) = cat
    \/ cat = s_other /\ getFirstWord(sent[id].cmd) \in {s_d, s_eval}

\* the place in the queue of the earliest pending command that takes the
\* category of line, the front when none does
PlaceByCategory(line) ==
    LET takers == {i \in 1..Len(queue[1]) : TakesCategory(queue[1][i], LineCategory(line))}
    IN  IF takers = {} THEN 1 ELSE CHOOSE i \in takers : \A j \in takers : i <= j

\* a bench or perft command is at the front of the queue
FrontBlocks == getFirstWord(sent[queue[1][1]].cmd) \in {s_bench, s_perft}

\* in this step the line read is given to the command at place i of the
\* queue, and to no other: it is appended to its output, or completes it
GivenTo(i, line) ==
    \E id \in 1..Len(sent) :
        /\ id = queue[1][i]
        /\ \A j \in 1..Len(sent) : j # id => sent'[j] = sent[j]
        /\ sent'[id].message # sent[id].message \/ ~InQueue(id)'
        /\ InQueue(id)' => sent'[id].message = sent[id].message \o line
        /\ ~InQueue(id)' => queue'[1] = splice(queue[1], i - 1) /\ sent'[id].invoked = 1

\* C23: a line read while the queue is not empty and its front is not a bench
\* or perft command is given to the earliest pending command whose first word
\* is the category of the line (uciok, option: uci; readyok: isready;
\* bestmove, info: go; any other: other, which d and eval take), and to the
\* front of the queue when no pending command takes it.
C23_AttributedByCategory ==
    [][\A line \in DispatchLines :
          (OneLineRead(line) /\ queue[1] # <<>> /\ ~FrontBlocks)
              => \E i \in 1..Len(queue[1]) :
                     i = PlaceByCategory(line) /\ GivenTo(i, line)]_vars

C23_Witness ==
    /\ Len(queue[1]) = 2
    /\ sent[queue[1][1]].cmd = s_d /\ sent[queue[1][1]].message = sliceEnd(l_fen, 1)
    /\ sent[queue[1][2]].cmd = s_go /\ sent[queue[1][2]].message = l_info

\* the category a terminal marker completes, <<>> for a line that is none
MarkerCategory(line) ==
    LET word == getFirstWord(line)
    IN  CASE word = s_uciok -> s_uci
          [] word = s_readyok -> s_isready
          [] word = s_bestmove -> s_go
          [] OTHER -> <<>>

\* in this step the pending command sent[id] is completed: it leaves the
\* queue and its callback is invoked
CompletedNow(id) == InQueue(id) /\ ~InQueue(id)' /\ sent'[id].invoked = sent[id].invoked + 1

\* C24: a terminal marker completes only a command of its own category: a
\* step that reads a `uciok` line completes no pending command but a `uci`, a
\* `readyok` line none but an `isready`, a `bestmove` line none but a `go`.
C24_MarkerCompletesOwnCategory ==
    [][\A line \in DispatchLines : \A id \in 1..Len(sent) :
          (OneLineRead(line) /\ MarkerCategory(line) # <<>> /\ CompletedNow(id))
              => getFirstWord(sent[id].cmd) = MarkerCategory(line)]_vars

\* a line that begins with "pawn key", "Nodes/second" or "Unknown command"
IsCatchAll(line) ==
    \/ substr(line, 0, 8) = s_pawnKey
    \/ substr(line, 0, 12) = s_NodesSecond
    \/ substr(line, 0, 15) = s_UnknownCommand

\* C25: a step that reads a line beginning with "pawn key", "Nodes/second" or
\* "Unknown command" while the queue is not empty completes the command at the
\* front of the queue: it is removed and its callback is invoked.
C25_CatchAllCompletesFront ==
    [][\A line \in DispatchLines :
          (OneLineRead(line) /\ queue[1] # <<>> /\ IsCatchAll(line))
              => \E id \in 1..Len(sent) :
                     id = queue[1][1] /\ CompletedNow(id) /\ queue'[1] = Tail(queue[1])]_vars

\* C26: a step that reads a line starting with "Legal uci moves" or "Key is"
\* while a `d` command is at the front of the queue completes that command;
\* when the line starts with "Key is", the output given to the callback is
\* the output accumulated before the marker line: no marker text, and all of
\* the output before it.
C26_DisplayCompletes ==
    [][\A line \in DispatchLines : \A id \in 1..Len(sent) :
          (/\ OneLineRead(line)
           /\ queue[1] # <<>> /\ id = queue[1][1] /\ sent[id].cmd = s_d
           /\ substr(line, 0, 15) = s_LegalUciMoves \/ substr(line, 0, 6) = s_KeyIs)
              => /\ CompletedNow(id)
                 /\ substr(line, 0, 6) = s_KeyIs => sent'[id].result = sent[id].message]_vars

\* C27: a line read while a bench or perft command is at the front of the
\* queue is given to that command, whatever the category of the line and
\* whatever is pending behind it.
C27_BlockingFrontTakesAll ==
    [][\A line \in DispatchLines :
          (OneLineRead(line) /\ queue[1] # <<>> /\ FrontBlocks) => GivenTo(1, line)]_vars

\* sent[id] is the `go` of a search
IsGo(id) == sent[id].cb.k = "go"

\* the lines the facade was given while the `go` sent[id] was outstanding
Window(id) == calls[sent[id].cb.a].window

\* C28: a line appended to the output of a pending command has been given to
\* the stream handler, and so to the 'data' and 'info' listeners of the
\* facade, when the step ends, and the line that completes a `go` has been
\* given to it before the callback of the `go` runs: the lines the facade saw
\* while the `go` was outstanding end with the line handed to its callback.
C28_StreamedBeforeCallback ==
    /\ [](\A id \in 1..Len(sent) :
             (IsGo(id) /\ sent[id].invoked = 1)
                 => (Window(id) # <<>> /\ Window(id)[Len(Window(id))] = sent[id].result))
    /\ [][\A id \in 1..Len(sent) :
             (InQueue(id) /\ sent'[id].message # sent[id].message)
                 => /\ events'.data = events.data + 1
                    /\ IsGo(id) =>
                          \E line \in SessionChunks :
                              /\ Window(id)' = Append(Window(id), line)
                              /\ \/ sent'[id].message = sent[id].message \o line
                                 \/ CompletedNow(id) /\ sent'[id].result = line]_vars

C28_Witness ==
    \E id \in 1..Len(sent) :
        /\ IsGo(id) /\ sent[id].invoked = 1
        /\ Window(id) = <<l_infoScore, l_bestmove>>
        /\ sent[id].result = l_bestmove
        /\ calls[sent[id].cb.a].st = "resolved"

\* the text of the chunks in order: the output stream of the engine as read
RECURSIVE StreamText(_)
StreamText(chunks) ==
    IF chunks = <<>> THEN <<>> ELSE Head(chunks) \o StreamText(Tail(chunks))

\* the complete non-blank lines of a text that ends at the end of a line
CompleteLines(text) ==
    SelectSeq(split(sliceEnd(text, 1)), LAMBDA singleLine : trim(singleLine) # <<>>)

\* C29: however the output of the engine was cut into the chunks read, once
\* the text read ends at the end of a line, the lines handed to the router
\* are the complete non-blank lines of that text, each once and in order.
C29_LinesWhateverTheChunks ==
    (input # <<>> /\ sliceLast(StreamText(input), 1) = NL)
        => output = CompleteLines(StreamText(input))

\* C30: a chunk read while the router queue is empty changes nothing: no
\* callback is invoked, the queue stays empty, the loaded and ready flags
\* keep their values, no line is given to the stream handler; and a command
\* sent afterwards starts with no output accumulated.
C30_EmptyQueueIgnores ==
    [][/\ (Len(input') = Len(input) + 1 /\ queue[1] = <<>>)
              => UNCHANGED <<sent, queue, deferred, loaded, ready, events, calls, written>>
       /\ Len(sent') = Len(sent) + 1 => sent'[Len(sent')].message = <<>>]_vars

C30_Witness ==
    /\ input = <<s_uciok \o NL>>
    /\ Len(sent) = 1 /\ sent[1].cmd = s_uci
    /\ queue[1] = <<1>> /\ sent[1].message = <<>> /\ sent[1].invoked = 0
    /\ ~loaded[1] /\ events.data = 0

\* the setoption commands the _configureEngine of the p-th _initialize sent
ConfigOptions(p) == {o \in 1..Len(sent) : IsConfigOption(o) /\ sent[o].cb.a = p}

\* the _configureEngine of the p-th _initialize ran and every setoption it had
\* to send has been acknowledged
ConfigDone(p) ==
    /\ \E r \in 1..Len(sent) : sent[r].cb = Cb("isready", p) /\ sent[r].invoked = 1
    /\ Cardinality(ConfigOptions(p)) = options
    /\ \A o \in ConfigOptions(p) : sent[o].invoked = 1

\* C31: the counter of each _configureEngine is the number of its setoption
\* commands whose callback has not run yet and is never negative, no such
\* callback runs twice, and what follows the configuration ('ready' emitted,
\* isInitialized set, resolve()) has happened once for each configuration
\* that is done and for no other: only after every callback, and at once
\* when there is no option to send.
C31_ConfigureCounts ==
    /\ \A p \in Gens :
          /\ pendingCommands[p] >= 0
          /\ pendingCommands[p]
                 = Cardinality({o \in ConfigOptions(p) : sent[o].invoked = 0})
          /\ \A o \in ConfigOptions(p) : sent[o].invoked <= 1
          /\ promise[p] = "resolved" => ConfigDone(p)
    /\ events.ready = Cardinality({p \in Gens : ConfigDone(p)})

C31_Witness ==
    \E p \in Gens :
        /\ options = 2 /\ promise[p] = "resolved" /\ pendingCommands[p] = 0
        /\ Cardinality(ConfigOptions(p)) = 2
        /\ events.ready = 1

\* the engine.send calls of the `go` and of the MultiPV setoption of call c
GoSends(c) == {id \in 1..Len(sent) : sent[id].cb = Cb("go", c)}
MultiPVSends(c) == {id \in 1..Len(sent) : sent[id].cb = Cb("multipv", c)}

\* C32: a getAiMove() with multiPV greater than 1 that got to its engine has
\* sent `setoption name MultiPV value <n>`, and its `go` is sent after that
\* command was written and its callback has run; a getAiMove() without it
\* sends no setoption, and its `go` at once.
C32_MultiPVBeforeGo ==
    \A c \in 1..Len(calls) :
        calls[c].op = "getAiMove" =>
            /\ Cardinality(GoSends(c)) <= 1 /\ Cardinality(MultiPVSends(c)) <= 1
            /\ calls[c].multiPV =>
                  /\ calls[c].st = "sent" => MultiPVSends(c) # {}
                  /\ \A m \in MultiPVSends(c) :
                        /\ sent[m].cmd = s_setMultiPV
                        /\ \E w \in WrittenAt(s_setMultiPV) : w[1] = sent[m].g
                  /\ \A id \in GoSends(c) :
                        \E m \in MultiPVSends(c) : m < id /\ sent[m].invoked = 1
            /\ ~calls[c].multiPV =>
                  /\ MultiPVSends(c) = {}
                  /\ calls[c].st = "sent" => GoSends(c) # {}

C32_Witness ==
    \E c \in 1..Len(calls) :
        /\ calls[c].op = "getAiMove" /\ calls[c].multiPV
        /\ \E m \in MultiPVSends(c), id \in GoSends(c) :
              m < id /\ sent[m].invoked = 1 /\ sent[id].g = sent[m].g /\ InQueue(id)

\* C33: an evaluate() that resolved was given a response that holds a
\* `Total evaluation:` field, from which its evaluation was read.
C33_EvaluationFromResponse ==
    \A c \in 1..Len(calls) :
        (calls[c].op = "evaluate" /\ calls[c].st = "resolved")
            => \E i \in 0..Len(calls[c].evaluation.details) :
                   evalRegexAt(calls[c].evaluation.details, i).ok

\* the entries of the cache m but the one of key k, in order
Others(m, k) == SelectSeq(m, LAMBDA e : e.key # k)

\* C34: the moveCache never holds more than MAX_CACHE_SIZE entries nor a key
\* twice; a search that resolves puts its move under its key, and when the
\* cache was full the oldest-inserted entry is gone and every other entry is
\* kept in order; a search that fails, and a call, leave the cache as it was.
C34_CacheBounded ==
    /\ [](/\ Len(output) <= MAX_CACHE_SIZE
          /\ \A i, j \in 1..Len(output) : output[i].key = output[j].key => i = j)
    /\ [][\A i \in 1..Len(input) :
             /\ (input[i].st = "pending" /\ input'[i].st = "resolved") =>
                   /\ mapHas(output', input[i].key)
                   /\ mapGet(output', input[i].key) = input'[i].value
                   /\ Others(output', input[i].key)
                         = Others(IF Len(output) = MAX_CACHE_SIZE THEN Tail(output) ELSE output,
                                  input[i].key)
             /\ (input[i].st = "pending" /\ input'[i].st = "rejected") => output' = output]_vars
    /\ [][Len(input') > Len(input) => output' = output]_vars

C34_Witness ==
    /\ Len(output) = MAX_CACHE_SIZE
    /\ \E i, j \in 1..Len(input) :
          /\ i < j /\ input[i].st = "resolved" /\ ~input[i].hit
          /\ input[j].st = "resolved" /\ ~input[j].hit
          /\ ~mapHas(output, input[i].key)
    /\ \E i \in 1..Len(input) : input[i].st = "rejected"

\* the positions that are not six fields, not eight ranks of eight files, or
\* have a bad side or castling field
RejectedFens == {s_fenFiveFields, s_fenBadRank, s_fenSevenRanks, s_fenBadPiece, s_fenNine,
                 s_fenBadSide, s_fenBadCastling, <<>>, UNDEF}

InvalidFenResult == [success |-> FALSE, error |-> "Invalid FEN string provided"]

\* C35: a server action called with a position that isValidFEN rejects starts
\* no search, so it creates no engine and sends no command, and the only value
\* it returns is {success: false, error: 'Invalid FEN string provided'}; the
\* positions with a wrong number of fields or ranks, a rank that does not sum
\* to eight, a bad side or a bad castling field are all rejected
C35_InvalidFenRefused ==
    /\ \A fen \in RejectedFens : ~isValidFEN(fen)
    /\ ~isValidFEN(input.fen) =>
          /\ bm = NoBm
          /\ output \in {<<>>, <<InvalidFenResult>>}

C35_Witness ==
    /\ input.action = "validateMove"
    /\ input.fen = s_fenBadCastling
    /\ input.move = m_e2e4
    /\ output = <<InvalidFenResult>>
    /\ bm = NoBm

\* the value getChessBestMove is asked to use: the default when the option is
\* absent, else the requested value clamped into lo..hi
Requested(opt, default, lo, hi) ==
    IF opt = Undefined THEN default ELSE clamp(opt.v, lo, hi)

\* C36: once getChessBestMove has configured its engine, the commands it
\* posted carry the requested depth, time limit and skill level clamped into
\* 1..20, 100..30000 and 0..20, the defaults 15, 1000 and 20 standing in only
\* for an absent option
C36_RequestedValuesClamped ==
    (input.action = "getChessBestMove" /\ bm.pc = "called" /\ bm.gotUCI) =>
        /\ Len(bm.posted) = 4
        /\ bm.posted[2] = s_setSkillLevel
               \o toString(Requested(input.options.skillLevel, 20, 0, 20))
        /\ bm.posted[4] = s_goDepth
               \o toString(Requested(input.options.depth, 15, 1, 20))
               \o s_movetime
               \o toString(Requested(input.options.timeLimit, 1000, 100, 30000))

\* C37: isReady() is true only while an engine adapter is attached that has
\* not been terminated
C37_ReadyOnlyWithLiveEngine ==
    isInitialized => (engine # 0 /\ worker[engine] = "running")

\* C38: once the promise of an initialization has been rejected, by its
\* timeout or by an error, the adapter that initialization spawned is not
\* running any more
C38_RejectedInitLeavesNoEngine ==
    \A p \in Gens : promise[p] \in {"timeout", "error"} => worker[p] # "running"

\* the commands whose callback the router called between S and T
CalledBack(S, T) == {id \in 1..Len(S.sent) : T.sent[id].invoked > S.sent[id].invoked}

\* the commands sent between S and T that went into the queue of engine h
QueuedSince(S, T, h) ==
    SelectSeq([i \in 1..(Len(T.sent) - Len(S.sent)) |-> Len(S.sent) + i],
              LAMBDA id : T.sent[id].queued /\ T.sent[id].g = h)

\* the router of engine g is given line in state S: the commands it completes
\* are gone from every queue, the commands their callbacks sent stand behind
\* everything that was pending, in the order sent, and have received nothing
OnLineOrder(S, g, line) ==
    LET T == onLine(S, g, line)
    IN  /\ \A h \in Gens :
              T.queue[h] = SelectSeq(S.queue[h], LAMBDA id : id \notin CalledBack(S, T))
                               \o QueuedSince(S, T, h)
        /\ \A id \in (Len(S.sent) + 1)..Len(T.sent) :
              /\ T.sent[id].message = <<>>
              /\ T.sent[id].invoked = 0
              /\ T.sent[id].result = <<>>

\* the same for the lines of a chunk, each met in the state the lines before
\* it have left
RECURSIVE ChunkOrder(_, _, _)
ChunkOrder(S, g, lines) ==
    \/ lines = <<>>
    \/ LET given == trim(Head(lines)) # <<>>
       IN  /\ given => OnLineOrder(S, g, Head(lines))
           /\ ChunkOrder(IF given THEN onLine(S, g, Head(lines)) ELSE S, g, Tail(lines))

\* C39: whatever the router of an engine is given next, one line or a chunk
\* of several, a command completed by a line is off the queue, a command sent
\* from its callback is appended behind the commands still pending, and the
\* line that completed the one is not attributed to the other
C39_CompletedLeavesBeforeCallback ==
    \A g \in Gens : \A data \in ConfigChunks : ChunkOrder(St, g, split(data))

\* one chunk has completed `uci` and then the `isready` its callback sent
C39_Witness ==
    /\ emitted = 1
    /\ Len(sent) >= 2
    /\ sent[1].cmd = s_uci /\ sent[1].invoked = 1 /\ sent[1].result = s_uciok
    /\ sent[2].cmd = s_isready /\ sent[2].invoked = 1 /\ sent[2].result = s_readyok
    /\ queue[1] = <<>>
====
